---- MODULE Spec2Model ----
(***************************************************************************)
(* Video-Analytics-BOT: the natural-language-to-SQL engine                 *)
(* (src/bot/nlp_processor.py), the result executor, the database cursor    *)
(* wrapper (src/database/connection.py) and the text-message handler of    *)
(* the bot (src/bot/telegram_bot.py).                                      *)
(*                                                                         *)
(* Strings are modelled as what they are: sequences of Unicode code        *)
(* points.  "id" is <<105, 100>>, Cyrillic "с" is <<1089>>.  Every string  *)
(* constant below carries the text it encodes in the comment above it.     *)
(* Regular expressions are matched on these sequences with Python's        *)
(* leftmost-first, greedy, backtracking semantics.                         *)
(***************************************************************************)
EXTENDS Integers, Sequences, FiniteSets, TLC

\* ------------------------------------------------------------------------
\* Characters and the str methods the code uses
\* ------------------------------------------------------------------------

\* str.isspace / regex \s, on the code points below 256 (the model's texts
\* hold no other white space)
WS == {9, 10, 11, 12, 13, 28, 29, 30, 31, 32, 133, 160}

IsSpace(c) == c \in WS

\* regex \d, on ASCII
IsDigit(c) == c \in 48..57

\* regex [a-f0-9]
IsHexLower(c) == c \in 48..57 \/ c \in 97..102

\* one character of str.lower(): Latin A-Z, Cyrillic U+0410..U+042F and
\* U+0400..U+040F
LowerChar(c) ==
  IF c \in 65..90 \/ c \in 1040..1071 THEN c + 32
  ELSE IF c \in 1024..1039 THEN c + 80
  ELSE c

\* one character of str.upper()
UpperChar(c) ==
  IF c \in 97..122 \/ c \in 1072..1103 THEN c - 32
  ELSE IF c \in 1104..1119 THEN c - 80
  ELSE c

lower(s) == [i \in 1..Len(s) |-> LowerChar(s[i])]

upper(s) == [i \in 1..Len(s) |-> UpperChar(s[i])]

MinOf(S) == CHOOSE x \in S : \A y \in S : x <= y

MaxOf(S) == CHOOSE x \in S : \A y \in S : x >= y

\* str.strip()
strip(s) ==
  LET keep == {i \in 1..Len(s) : ~IsSpace(s[i])}
  IN IF keep = {} THEN <<>> ELSE SubSeq(s, MinOf(keep), MaxOf(keep))

\* p occurs in s at index i
MatchAt(s, i, p) ==
  /\ i >= 1
  /\ i + Len(p) - 1 <= Len(s)
  /\ \A j \in 1..Len(p) : s[i + j - 1] = p[j]

\* str.startswith
startswith(s, p) == MatchAt(s, 1, p)

\* Python's  p in s
In(p, s) == \E i \in 1..(Len(s) - Len(p) + 1) : MatchAt(s, i, p)

\* str.replace(' ', '')
RECURSIVE remove_spaces(_)
remove_spaces(s) ==
  IF s = <<>> THEN <<>>
  ELSE IF Head(s) = 32 THEN remove_spaces(Tail(s))
  ELSE <<Head(s)>> \o remove_spaces(Tail(s))

AllDigits(s) == \A j \in 1..Len(s) : IsDigit(s[j])

\* the value of a run of decimal digits
RECURSIVE DigitsValue(_)
DigitsValue(ds) ==
  IF ds = <<>> THEN 0
  ELSE 10 * DigitsValue(SubSeq(ds, 1, Len(ds) - 1)) + (ds[Len(ds)] - 48)

\* int(s): white space around the digits is ignored, anything else raises
\* ValueError
int_ok(s) == strip(s) # <<>> /\ AllDigits(strip(s))

int_of(s) == DigitsValue(strip(s))

\* str(n) for an integer n
RECURSIVE NatStr(_)
NatStr(n) == IF n < 10 THEN <<48 + n>> ELSE NatStr(n \div 10) \o <<48 + (n % 10)>>

\* the variant of str(n) that loses the sign
str_unsigned(n) == NatStr(IF n < 0 THEN -n ELSE n)

str(n) == IF n < 0 THEN <<45>> \o NatStr(-n) ELSE NatStr(n)

\* str.zfill(w), and the format specs :02d and :04d on a string of digits
zfill(s, w) == [i \in 1..(IF Len(s) < w THEN w - Len(s) ELSE 0) |-> 48] \o s

\* ------------------------------------------------------------------------
\* String constants
\* ------------------------------------------------------------------------
\* ---- BEGIN string constants
\* the known questions and their SQL, in dict order
test_queries ==
  \* "Сколько всего видео есть в системе?", "SELECT COUNT(*) FROM videos"
  << [q |-> <<1057, 1082, 1086, 1083, 1100, 1082, 1086, 32, 1074, 1089, 1077, 1075, 1086, 32, 1074, 1080, 1076, 1077, 1086, 32, 1077, 1089, 1090, 1100, 32, 1074, 32, 1089, 1080, 1089, 1090, 1077, 1084, 1077, 63>>,
      sql |-> <<83, 69, 76, 69, 67, 84, 32, 67, 79, 85, 78, 84, 40, 42, 41, 32, 70, 82, 79, 77, 32, 118, 105, 100, 101, 111, 115>>],
  \* "Сколько видео набрало больше 100 000 просмотров?", "SELECT COUNT(*) FROM videos WHERE views_count > 100000"
     [q |-> <<1057, 1082, 1086, 1083, 1100, 1082, 1086, 32, 1074, 1080, 1076, 1077, 1086, 32, 1085, 1072, 1073, 1088, 1072, 1083, 1086, 32, 1073, 1086, 1083, 1100, 1096, 1077, 32, 49, 48, 48, 32, 48, 48, 48, 32, 1087, 1088, 1086, 1089, 1084, 1086, 1090, 1088, 1086, 1074, 63>>,
      sql |-> <<83, 69, 76, 69, 67, 84, 32, 67, 79, 85, 78, 84, 40, 42, 41, 32, 70, 82, 79, 77, 32, 118, 105, 100, 101, 111, 115, 32, 87, 72, 69, 82, 69, 32, 118, 105, 101, 119, 115, 95, 99, 111, 117, 110, 116, 32, 62, 32, 49, 48, 48, 48, 48, 48>>],
  \* "На сколько просмотров в сумме выросли все видео 28 ноября 2025?", "SELECT SUM(delta_views_count) FROM video_snapshots WHERE DATE(created_at) = '2025-11-28'"
     [q |-> <<1053, 1072, 32, 1089, 1082, 1086, 1083, 1100, 1082, 1086, 32, 1087, 1088, 1086, 1089, 1084, 1086, 1090, 1088, 1086, 1074, 32, 1074, 32, 1089, 1091, 1084, 1084, 1077, 32, 1074, 1099, 1088, 1086, 1089, 1083, 1080, 32, 1074, 1089, 1077, 32, 1074, 1080, 1076, 1077, 1086, 32, 50, 56, 32, 1085, 1086, 1103, 1073, 1088, 1103, 32, 50, 48, 50, 53, 63>>,
      sql |-> <<83, 69, 76, 69, 67, 84, 32, 83, 85, 77, 40, 100, 101, 108, 116, 97, 95, 118, 105, 101, 119, 115, 95, 99, 111, 117, 110, 116, 41, 32, 70, 82, 79, 77, 32, 118, 105, 100, 101, 111, 95, 115, 110, 97, 112, 115, 104, 111, 116, 115, 32, 87, 72, 69, 82, 69, 32, 68, 65, 84, 69, 40, 99, 114, 101, 97, 116, 101, 100, 95, 97, 116, 41, 32, 61, 32, 39, 50, 48, 50, 53, 45, 49, 49, 45, 50, 56, 39>>],
  \* "Сколько разных видео получали новые просмотры 27 ноября 2025?", "SELECT COUNT(DISTINCT video_id) FROM video_snapshots WHERE DATE(created_at) = '2025-11-27' AND delta_views_count > 0"
     [q |-> <<1057, 1082, 1086, 1083, 1100, 1082, 1086, 32, 1088, 1072, 1079, 1085, 1099, 1093, 32, 1074, 1080, 1076, 1077, 1086, 32, 1087, 1086, 1083, 1091, 1095, 1072, 1083, 1080, 32, 1085, 1086, 1074, 1099, 1077, 32, 1087, 1088, 1086, 1089, 1084, 1086, 1090, 1088, 1099, 32, 50, 55, 32, 1085, 1086, 1103, 1073, 1088, 1103, 32, 50, 48, 50, 53, 63>>,
      sql |-> <<83, 69, 76, 69, 67, 84, 32, 67, 79, 85, 78, 84, 40, 68, 73, 83, 84, 73, 78, 67, 84, 32, 118, 105, 100, 101, 111, 95, 105, 100, 41, 32, 70, 82, 79, 77, 32, 118, 105, 100, 101, 111, 95, 115, 110, 97, 112, 115, 104, 111, 116, 115, 32, 87, 72, 69, 82, 69, 32, 68, 65, 84, 69, 40, 99, 114, 101, 97, 116, 101, 100, 95, 97, 116, 41, 32, 61, 32, 39, 50, 48, 50, 53, 45, 49, 49, 45, 50, 55, 39, 32, 65, 78, 68, 32, 100, 101, 108, 116, 97, 95, 118, 105, 101, 119, 115, 95, 99, 111, 117, 110, 116, 32, 62, 32, 48>>] >>

\* month name in the genitive -> two-digit number, in dict order
MONTHS_GENITIVE ==
  \* "января", "01"
  << [name |-> <<1103, 1085, 1074, 1072, 1088, 1103>>, num |-> <<48, 49>>],
  \* "февраля", "02"
     [name |-> <<1092, 1077, 1074, 1088, 1072, 1083, 1103>>, num |-> <<48, 50>>],
  \* "марта", "03"
     [name |-> <<1084, 1072, 1088, 1090, 1072>>, num |-> <<48, 51>>],
  \* "апреля", "04"
     [name |-> <<1072, 1087, 1088, 1077, 1083, 1103>>, num |-> <<48, 52>>],
  \* "мая", "05"
     [name |-> <<1084, 1072, 1103>>, num |-> <<48, 53>>],
  \* "июня", "06"
     [name |-> <<1080, 1102, 1085, 1103>>, num |-> <<48, 54>>],
  \* "июля", "07"
     [name |-> <<1080, 1102, 1083, 1103>>, num |-> <<48, 55>>],
  \* "августа", "08"
     [name |-> <<1072, 1074, 1075, 1091, 1089, 1090, 1072>>, num |-> <<48, 56>>],
  \* "сентября", "09"
     [name |-> <<1089, 1077, 1085, 1090, 1103, 1073, 1088, 1103>>, num |-> <<48, 57>>],
  \* "октября", "10"
     [name |-> <<1086, 1082, 1090, 1103, 1073, 1088, 1103>>, num |-> <<49, 48>>],
  \* "ноября", "11"
     [name |-> <<1085, 1086, 1103, 1073, 1088, 1103>>, num |-> <<49, 49>>],
  \* "декабря", "12"
     [name |-> <<1076, 1077, 1082, 1072, 1073, 1088, 1103>>, num |-> <<49, 50>>] >>

\* stem -> delta column, in dict order
METRIC_KEYWORDS ==
  \* "просмотр", "delta_views_count"
  << [keyword |-> <<1087, 1088, 1086, 1089, 1084, 1086, 1090, 1088>>,
      column |-> <<100, 101, 108, 116, 97, 95, 118, 105, 101, 119, 115, 95, 99, 111, 117, 110, 116>>],
  \* "лайк", "delta_likes_count"
     [keyword |-> <<1083, 1072, 1081, 1082>>,
      column |-> <<100, 101, 108, 116, 97, 95, 108, 105, 107, 101, 115, 95, 99, 111, 117, 110, 116>>],
  \* "комментар", "delta_comments_count"
     [keyword |-> <<1082, 1086, 1084, 1084, 1077, 1085, 1090, 1072, 1088>>,
      column |-> <<100, 101, 108, 116, 97, 95, 99, 111, 109, 109, 101, 110, 116, 115, 95, 99, 111, 117, 110, 116>>],
  \* "жалоб", "delta_reports_count"
     [keyword |-> <<1078, 1072, 1083, 1086, 1073>>,
      column |-> <<100, 101, 108, 116, 97, 95, 114, 101, 112, 111, 114, 116, 115, 95, 99, 111, 117, 110, 116>>],
  \* "репорт", "delta_reports_count"
     [keyword |-> <<1088, 1077, 1087, 1086, 1088, 1090>>,
      column |-> <<100, 101, 108, 116, 97, 95, 114, 101, 112, 111, 114, 116, 115, 95, 99, 111, 117, 110, 116>>] >>

\* month name in the prepositional case -> number (the alternation of
\* month_year_pattern has the same order)
month_map ==
  \* "январе", 1
  << [name |-> <<1103, 1085, 1074, 1072, 1088, 1077>>, num |-> 1],
  \* "феврале", 2
     [name |-> <<1092, 1077, 1074, 1088, 1072, 1083, 1077>>, num |-> 2],
  \* "марте", 3
     [name |-> <<1084, 1072, 1088, 1090, 1077>>, num |-> 3],
  \* "апреле", 4
     [name |-> <<1072, 1087, 1088, 1077, 1083, 1077>>, num |-> 4],
  \* "мае", 5
     [name |-> <<1084, 1072, 1077>>, num |-> 5],
  \* "июне", 6
     [name |-> <<1080, 1102, 1085, 1077>>, num |-> 6],
  \* "июле", 7
     [name |-> <<1080, 1102, 1083, 1077>>, num |-> 7],
  \* "августе", 8
     [name |-> <<1072, 1074, 1075, 1091, 1089, 1090, 1077>>, num |-> 8],
  \* "сентябре", 9
     [name |-> <<1089, 1077, 1085, 1090, 1103, 1073, 1088, 1077>>, num |-> 9],
  \* "октябре", 10
     [name |-> <<1086, 1082, 1090, 1103, 1073, 1088, 1077>>, num |-> 10],
  \* "ноябре", 11
     [name |-> <<1085, 1086, 1103, 1073, 1088, 1077>>, num |-> 11],
  \* "декабре", 12
     [name |-> <<1076, 1077, 1082, 1072, 1073, 1088, 1077>>, num |-> 12] >>

\* month word in the genitive or prepositional case -> number
month_map_any ==
  \* "января", 1
  << [name |-> <<1103, 1085, 1074, 1072, 1088, 1103>>, num |-> 1],
  \* "январе", 1
     [name |-> <<1103, 1085, 1074, 1072, 1088, 1077>>, num |-> 1],
  \* "февраля", 2
     [name |-> <<1092, 1077, 1074, 1088, 1072, 1083, 1103>>, num |-> 2],
  \* "феврале", 2
     [name |-> <<1092, 1077, 1074, 1088, 1072, 1083, 1077>>, num |-> 2],
  \* "марта", 3
     [name |-> <<1084, 1072, 1088, 1090, 1072>>, num |-> 3],
  \* "марте", 3
     [name |-> <<1084, 1072, 1088, 1090, 1077>>, num |-> 3],
  \* "апреля", 4
     [name |-> <<1072, 1087, 1088, 1077, 1083, 1103>>, num |-> 4],
  \* "апреле", 4
     [name |-> <<1072, 1087, 1088, 1077, 1083, 1077>>, num |-> 4],
  \* "мая", 5
     [name |-> <<1084, 1072, 1103>>, num |-> 5],
  \* "мае", 5
     [name |-> <<1084, 1072, 1077>>, num |-> 5],
  \* "июня", 6
     [name |-> <<1080, 1102, 1085, 1103>>, num |-> 6],
  \* "июне", 6
     [name |-> <<1080, 1102, 1085, 1077>>, num |-> 6],
  \* "июля", 7
     [name |-> <<1080, 1102, 1083, 1103>>, num |-> 7],
  \* "июле", 7
     [name |-> <<1080, 1102, 1083, 1077>>, num |-> 7],
  \* "августа", 8
     [name |-> <<1072, 1074, 1075, 1091, 1089, 1090, 1072>>, num |-> 8],
  \* "августе", 8
     [name |-> <<1072, 1074, 1075, 1091, 1089, 1090, 1077>>, num |-> 8],
  \* "сентября", 9
     [name |-> <<1089, 1077, 1085, 1090, 1103, 1073, 1088, 1103>>, num |-> 9],
  \* "сентябре", 9
     [name |-> <<1089, 1077, 1085, 1090, 1103, 1073, 1088, 1077>>, num |-> 9],
  \* "октября", 10
     [name |-> <<1086, 1082, 1090, 1103, 1073, 1088, 1103>>, num |-> 10],
  \* "октябре", 10
     [name |-> <<1086, 1082, 1090, 1103, 1073, 1088, 1077>>, num |-> 10],
  \* "ноября", 11
     [name |-> <<1085, 1086, 1103, 1073, 1088, 1103>>, num |-> 11],
  \* "ноябре", 11
     [name |-> <<1085, 1086, 1103, 1073, 1088, 1077>>, num |-> 11],
  \* "декабря", 12
     [name |-> <<1076, 1077, 1082, 1072, 1073, 1088, 1103>>, num |-> 12],
  \* "декабре", 12
     [name |-> <<1076, 1077, 1082, 1072, 1073, 1088, 1077>>, num |-> 12] >>

\* the alternatives of month_year_pattern_any, in order: a stem, the
\* characters its suffix class admits, and whether the suffix is optional
\* (0: [..], 1: [..]?)
month_any_alternatives ==
  \* "январ", "ьяе", 0
  << [stem |-> <<1103, 1085, 1074, 1072, 1088>>, suffix |-> <<1100, 1103, 1077>>, optional |-> 0],
  \* "феврал", "ьяе", 0
     [stem |-> <<1092, 1077, 1074, 1088, 1072, 1083>>,
      suffix |-> <<1100, 1103, 1077>>,
      optional |-> 0],
  \* "март", "ае", 1
     [stem |-> <<1084, 1072, 1088, 1090>>, suffix |-> <<1072, 1077>>, optional |-> 1],
  \* "апрел", "ьяе", 0
     [stem |-> <<1072, 1087, 1088, 1077, 1083>>, suffix |-> <<1100, 1103, 1077>>, optional |-> 0],
  \* "ма", "яе", 0
     [stem |-> <<1084, 1072>>, suffix |-> <<1103, 1077>>, optional |-> 0],
  \* "июн", "ьяе", 0
     [stem |-> <<1080, 1102, 1085>>, suffix |-> <<1100, 1103, 1077>>, optional |-> 0],
  \* "июл", "ьяе", 0
     [stem |-> <<1080, 1102, 1083>>, suffix |-> <<1100, 1103, 1077>>, optional |-> 0],
  \* "август", "ае", 1
     [stem |-> <<1072, 1074, 1075, 1091, 1089, 1090>>, suffix |-> <<1072, 1077>>, optional |-> 1],
  \* "сентябр", "ьяе", 0
     [stem |-> <<1089, 1077, 1085, 1090, 1103, 1073, 1088>>,
      suffix |-> <<1100, 1103, 1077>>,
      optional |-> 0],
  \* "октябр", "ьяе", 0
     [stem |-> <<1086, 1082, 1090, 1103, 1073, 1088>>,
      suffix |-> <<1100, 1103, 1077>>,
      optional |-> 0],
  \* "ноябр", "ьяе", 0
     [stem |-> <<1085, 1086, 1103, 1073, 1088>>, suffix |-> <<1100, 1103, 1077>>, optional |-> 0],
  \* "декабр", "ьяе", 0
     [stem |-> <<1076, 1077, 1082, 1072, 1073, 1088>>,
      suffix |-> <<1100, 1103, 1077>>,
      optional |-> 0] >>

\* the month alternation of the date-range pattern, in order, with the
\* number month_map gives each name
date_range_months ==
  \* "ноября", "11"
  << [name |-> <<1085, 1086, 1103, 1073, 1088, 1103>>, num |-> <<49, 49>>],
  \* "ноября", "11"
     [name |-> <<1085, 1086, 1103, 1073, 1088, 1103>>, num |-> <<49, 49>>],
  \* "декабря", "12"
     [name |-> <<1076, 1077, 1082, 1072, 1073, 1088, 1103>>, num |-> <<49, 50>>],
  \* "января", "01"
     [name |-> <<1103, 1085, 1074, 1072, 1088, 1103>>, num |-> <<48, 49>>],
  \* "февраля", "02"
     [name |-> <<1092, 1077, 1074, 1088, 1072, 1083, 1103>>, num |-> <<48, 50>>],
  \* "марта", "03"
     [name |-> <<1084, 1072, 1088, 1090, 1072>>, num |-> <<48, 51>>],
  \* "апреля", "04"
     [name |-> <<1072, 1087, 1088, 1077, 1083, 1103>>, num |-> <<48, 52>>],
  \* "мая", "05"
     [name |-> <<1084, 1072, 1103>>, num |-> <<48, 53>>],
  \* "июня", "06"
     [name |-> <<1080, 1102, 1085, 1103>>, num |-> <<48, 54>>],
  \* "июля", "07"
     [name |-> <<1080, 1102, 1083, 1103>>, num |-> <<48, 55>>],
  \* "августа", "08"
     [name |-> <<1072, 1074, 1075, 1091, 1089, 1090, 1072>>, num |-> <<48, 56>>],
  \* "сентября", "09"
     [name |-> <<1089, 1077, 1085, 1090, 1103, 1073, 1088, 1103>>, num |-> <<48, 57>>],
  \* "октября", "10"
     [name |-> <<1086, 1082, 1090, 1103, 1073, 1088, 1103>>, num |-> <<49, 48>>] >>

\* the words the guards and patterns search for
KW ==
  \* "отрицательным"
  [ otricatelnym |->
      <<1086, 1090, 1088, 1080, 1094, 1072, 1090, 1077, 1083, 1100, 1085, 1099, 1084>>,
  \* "отрицательное"
    otricatelnoe |->
      <<1086, 1090, 1088, 1080, 1094, 1072, 1090, 1077, 1083, 1100, 1085, 1086, 1077>>,
  \* "замер"
    zamer |->
      <<1079, 1072, 1084, 1077, 1088>>,
  \* "снапшот"
    snapshot |->
      <<1089, 1085, 1072, 1087, 1096, 1086, 1090>>,
  \* "статистик"
    statistik |->
      <<1089, 1090, 1072, 1090, 1080, 1089, 1090, 1080, 1082>>,
  \* "delta_views_count"
    delta_views_count |->
      <<100, 101, 108, 116, 97, 95, 118, 105, 101, 119, 115, 95, 99, 111, 117, 110, 116>>,
  \* "просмотров"
    prosmotrov |->
      <<1087, 1088, 1086, 1089, 1084, 1086, 1090, 1088, 1086, 1074>>,
  \* "просмотр"
    prosmotr |->
      <<1087, 1088, 1086, 1089, 1084, 1086, 1090, 1088>>,
  \* "суммарное"
    summarnoe |->
      <<1089, 1091, 1084, 1084, 1072, 1088, 1085, 1086, 1077>>,
  \* "сумма"
    summa |->
      <<1089, 1091, 1084, 1084, 1072>>,
  \* "сумму"
    summu |->
      <<1089, 1091, 1084, 1084, 1091>>,
  \* "сколько"
    skolko |->
      <<1089, 1082, 1086, 1083, 1100, 1082, 1086>>,
  \* "креатор"
    kreator |->
      <<1082, 1088, 1077, 1072, 1090, 1086, 1088>>,
  \* "разных"
    raznyh |->
      <<1088, 1072, 1079, 1085, 1099, 1093>>,
  \* "больше"
    bolshe |->
      <<1073, 1086, 1083, 1100, 1096, 1077>>,
  \* "id"
    id |->
      <<105, 100>>,
  \* "календар"
    kalendar |->
      <<1082, 1072, 1083, 1077, 1085, 1076, 1072, 1088>>,
  \* "дня"
    dnya |->
      <<1076, 1085, 1103>>,
  \* "дней"
    dney |->
      <<1076, 1085, 1077, 1081>>,
  \* "днях"
    dnyah |->
      <<1076, 1085, 1103, 1093>>,
  \* "delta"
    delta |->
      <<100, 101, 108, 116, 97>>,
  \* "прирост"
    prirost |->
      <<1087, 1088, 1080, 1088, 1086, 1089, 1090>>,
  \* "года"
    goda |->
      <<1075, 1086, 1076, 1072>>,
  \* "в"
    v |->
      <<1074>>,
  \* "с"
    s |->
      <<1089>>,
  \* "до"
    do |->
      <<1076, 1086>>,
  \* "по"
    po |->
      <<1087, 1086>>,
  \* "лайков"
    laykov |->
      <<1083, 1072, 1081, 1082, 1086, 1074>>,
  \* "комментар"
    kommentar |->
      <<1082, 1086, 1084, 1084, 1077, 1085, 1090, 1072, 1088>>,
  \* "жалоб"
    zhalob |->
      <<1078, 1072, 1083, 1086, 1073>>,
  \* "репорт"
    report |->
      <<1088, 1077, 1087, 1086, 1088, 1090>>,
  \* "сколько всего видео"
    skolko_vsego_video |->
      <<1089, 1082, 1086, 1083, 1100, 1082, 1086, 32, 1074, 1089, 1077, 1075, 1086, 32, 1074,
        1080, 1076, 1077, 1086>>,
  \* "total videos"
    total_videos |->
      <<116, 111, 116, 97, 108, 32, 118, 105, 100, 101, 111, 115>>,
  \* "больше 100"
    bolshe_100 |->
      <<1073, 1086, 1083, 1100, 1096, 1077, 32, 49, 48, 48>>,
  \* "выросли"
    vyrosli |->
      <<1074, 1099, 1088, 1086, 1089, 1083, 1080>>,
  \* "28 ноября"
    d28_noyabrya |->
      <<50, 56, 32, 1085, 1086, 1103, 1073, 1088, 1103>>,
  \* "новые просмотры"
    novye_prosmotry |->
      <<1085, 1086, 1074, 1099, 1077, 32, 1087, 1088, 1086, 1089, 1084, 1086, 1090, 1088, 1099>>,
  \* "27 ноября"
    d27_noyabrya |->
      <<50, 55, 32, 1085, 1086, 1103, 1073, 1088, 1103>>,
  \* "2025"
    y2025 |->
      <<50, 48, 50, 53>>,
  \* "SELECT"
    SELECT |->
      <<83, 69, 76, 69, 67, 84>> ]

\* the SQL literals and the constant pieces of the SQL f-strings
SQL ==
  \* "SELECT COUNT(*) FROM video_snapshots WHERE delta_views_count < 0"
  [ neg_delta |->
      <<83, 69, 76, 69, 67, 84, 32, 67, 79, 85, 78, 84, 40, 42, 41, 32, 70, 82, 79, 77, 32,
        118, 105, 100, 101, 111, 95, 115, 110, 97, 112, 115, 104, 111, 116, 115, 32, 87, 72,
        69, 82, 69, 32, 100, 101, 108, 116, 97, 95, 118, 105, 101, 119, 115, 95, 99, 111, 117,
        110, 116, 32, 60, 32, 48>>,
  \* "SELECT SUM(views_count) FROM videos WHERE EXTRACT(YEAR FROM video_created_at) = "
    sum_views_year |->
      <<83, 69, 76, 69, 67, 84, 32, 83, 85, 77, 40, 118, 105, 101, 119, 115, 95, 99, 111, 117,
        110, 116, 41, 32, 70, 82, 79, 77, 32, 118, 105, 100, 101, 111, 115, 32, 87, 72, 69, 82,
        69, 32, 69, 88, 84, 82, 65, 67, 84, 40, 89, 69, 65, 82, 32, 70, 82, 79, 77, 32, 118,
        105, 100, 101, 111, 95, 99, 114, 101, 97, 116, 101, 100, 95, 97, 116, 41, 32, 61, 32>>,
  \* "SELECT COUNT(*) FROM videos WHERE EXTRACT(YEAR FROM video_created_at) = "
    count_year |->
      <<83, 69, 76, 69, 67, 84, 32, 67, 79, 85, 78, 84, 40, 42, 41, 32, 70, 82, 79, 77, 32,
        118, 105, 100, 101, 111, 115, 32, 87, 72, 69, 82, 69, 32, 69, 88, 84, 82, 65, 67, 84,
        40, 89, 69, 65, 82, 32, 70, 82, 79, 77, 32, 118, 105, 100, 101, 111, 95, 99, 114, 101,
        97, 116, 101, 100, 95, 97, 116, 41, 32, 61, 32>>,
  \* " AND EXTRACT(MONTH FROM video_created_at) = "
    and_month |->
      <<32, 65, 78, 68, 32, 69, 88, 84, 82, 65, 67, 84, 40, 77, 79, 78, 84, 72, 32, 70, 82, 79,
        77, 32, 118, 105, 100, 101, 111, 95, 99, 114, 101, 97, 116, 101, 100, 95, 97, 116, 41,
        32, 61, 32>>,
  \* "SELECT COUNT(DISTINCT creator_id) FROM videos WHERE views_count > "
    distinct_creators |->
      <<83, 69, 76, 69, 67, 84, 32, 67, 79, 85, 78, 84, 40, 68, 73, 83, 84, 73, 78, 67, 84, 32,
        99, 114, 101, 97, 116, 111, 114, 95, 105, 100, 41, 32, 70, 82, 79, 77, 32, 118, 105,
        100, 101, 111, 115, 32, 87, 72, 69, 82, 69, 32, 118, 105, 101, 119, 115, 95, 99, 111,
        117, 110, 116, 32, 62, 32>>,
  \* "SELECT COUNT(DISTINCT DATE(video_created_at)) FROM videos WHERE creator_id = '"
    cal_days |->
      <<83, 69, 76, 69, 67, 84, 32, 67, 79, 85, 78, 84, 40, 68, 73, 83, 84, 73, 78, 67, 84, 32,
        68, 65, 84, 69, 40, 118, 105, 100, 101, 111, 95, 99, 114, 101, 97, 116, 101, 100, 95,
        97, 116, 41, 41, 32, 70, 82, 79, 77, 32, 118, 105, 100, 101, 111, 115, 32, 87, 72, 69,
        82, 69, 32, 99, 114, 101, 97, 116, 111, 114, 95, 105, 100, 32, 61, 32, 39>>,
  \* "' AND EXTRACT(YEAR FROM video_created_at) = "
    q_and_year |->
      <<39, 32, 65, 78, 68, 32, 69, 88, 84, 82, 65, 67, 84, 40, 89, 69, 65, 82, 32, 70, 82, 79,
        77, 32, 118, 105, 100, 101, 111, 95, 99, 114, 101, 97, 116, 101, 100, 95, 97, 116, 41,
        32, 61, 32>>,
  \* "SELECT COALESCE(SUM(vs."
    window_a |->
      <<83, 69, 76, 69, 67, 84, 32, 67, 79, 65, 76, 69, 83, 67, 69, 40, 83, 85, 77, 40, 118,
        115, 46>>,
  \* "), 0) FROM video_snapshots vs JOIN videos v ON v.id = vs.video_id WHERE v.creator_id = '"
    window_b |->
      <<41, 44, 32, 48, 41, 32, 70, 82, 79, 77, 32, 118, 105, 100, 101, 111, 95, 115, 110, 97,
        112, 115, 104, 111, 116, 115, 32, 118, 115, 32, 74, 79, 73, 78, 32, 118, 105, 100, 101,
        111, 115, 32, 118, 32, 79, 78, 32, 118, 46, 105, 100, 32, 61, 32, 118, 115, 46, 118,
        105, 100, 101, 111, 95, 105, 100, 32, 87, 72, 69, 82, 69, 32, 118, 46, 99, 114, 101,
        97, 116, 111, 114, 95, 105, 100, 32, 61, 32, 39>>,
  \* "' AND vs.created_at >= '"
    window_c |->
      <<39, 32, 65, 78, 68, 32, 118, 115, 46, 99, 114, 101, 97, 116, 101, 100, 95, 97, 116, 32,
        62, 61, 32, 39>>,
  \* "' AND vs.created_at < '"
    window_d |->
      <<39, 32, 65, 78, 68, 32, 118, 115, 46, 99, 114, 101, 97, 116, 101, 100, 95, 97, 116, 32,
        60, 32, 39>>,
  \* "'"
    quote |->
      <<39>>,
  \* "SELECT COUNT(*) FROM videos WHERE creator_id = '"
    creator |->
      <<83, 69, 76, 69, 67, 84, 32, 67, 79, 85, 78, 84, 40, 42, 41, 32, 70, 82, 79, 77, 32,
        118, 105, 100, 101, 111, 115, 32, 87, 72, 69, 82, 69, 32, 99, 114, 101, 97, 116, 111,
        114, 95, 105, 100, 32, 61, 32, 39>>,
  \* "' AND video_created_at >= '"
    range_from |->
      <<39, 32, 65, 78, 68, 32, 118, 105, 100, 101, 111, 95, 99, 114, 101, 97, 116, 101, 100,
        95, 97, 116, 32, 62, 61, 32, 39>>,
  \* "' AND video_created_at <= '"
    range_to |->
      <<39, 32, 65, 78, 68, 32, 118, 105, 100, 101, 111, 95, 99, 114, 101, 97, 116, 101, 100,
        95, 97, 116, 32, 60, 61, 32, 39>>,
  \* " 23:59:59"
    end_of_day |->
      <<32, 50, 51, 58, 53, 57, 58, 53, 57>>,
  \* "' AND views_count > "
    creator_views |->
      <<39, 32, 65, 78, 68, 32, 118, 105, 101, 119, 115, 95, 99, 111, 117, 110, 116, 32, 62, 32>>,
  \* "SELECT COUNT(*) FROM videos"
    total |->
      <<83, 69, 76, 69, 67, 84, 32, 67, 79, 85, 78, 84, 40, 42, 41, 32, 70, 82, 79, 77, 32,
        118, 105, 100, 101, 111, 115>>,
  \* "SELECT COUNT(*) FROM videos WHERE views_count > 100000"
    over100k |->
      <<83, 69, 76, 69, 67, 84, 32, 67, 79, 85, 78, 84, 40, 42, 41, 32, 70, 82, 79, 77, 32,
        118, 105, 100, 101, 111, 115, 32, 87, 72, 69, 82, 69, 32, 118, 105, 101, 119, 115, 95,
        99, 111, 117, 110, 116, 32, 62, 32, 49, 48, 48, 48, 48, 48>>,
  \* "SELECT SUM(delta_views_count) FROM video_snapshots WHERE DATE(created_at) = '2025-11-28'"
    growth28 |->
      <<83, 69, 76, 69, 67, 84, 32, 83, 85, 77, 40, 100, 101, 108, 116, 97, 95, 118, 105, 101,
        119, 115, 95, 99, 111, 117, 110, 116, 41, 32, 70, 82, 79, 77, 32, 118, 105, 100, 101,
        111, 95, 115, 110, 97, 112, 115, 104, 111, 116, 115, 32, 87, 72, 69, 82, 69, 32, 68,
        65, 84, 69, 40, 99, 114, 101, 97, 116, 101, 100, 95, 97, 116, 41, 32, 61, 32, 39, 50,
        48, 50, 53, 45, 49, 49, 45, 50, 56, 39>>,
  \* "SELECT COUNT(DISTINCT video_id) FROM video_snapshots WHERE DATE(created_at) = '2025-11-27' AND delta_views_count > 0"
    new27 |->
      <<83, 69, 76, 69, 67, 84, 32, 67, 79, 85, 78, 84, 40, 68, 73, 83, 84, 73, 78, 67, 84, 32,
        118, 105, 100, 101, 111, 95, 105, 100, 41, 32, 70, 82, 79, 77, 32, 118, 105, 100, 101,
        111, 95, 115, 110, 97, 112, 115, 104, 111, 116, 115, 32, 87, 72, 69, 82, 69, 32, 68,
        65, 84, 69, 40, 99, 114, 101, 97, 116, 101, 100, 95, 97, 116, 41, 32, 61, 32, 39, 50,
        48, 50, 53, 45, 49, 49, 45, 50, 55, 39, 32, 65, 78, 68, 32, 100, 101, 108, 116, 97, 95,
        118, 105, 101, 119, 115, 95, 99, 111, 117, 110, 116, 32, 62, 32, 48>>,
  \* "SELECT SUM(views_count) FROM videos"
    sum_views_all |->
      <<83, 69, 76, 69, 67, 84, 32, 83, 85, 77, 40, 118, 105, 101, 119, 115, 95, 99, 111, 117,
        110, 116, 41, 32, 70, 82, 79, 77, 32, 118, 105, 100, 101, 111, 115>>,
  \* "+00:00"
    utc |->
      <<43, 48, 48, 58, 48, 48>> ]

\* the replies of the text-message handler
MSG ==
  \* "Пожалуйста, введите вопрос."
  [ enter_question |->
      <<1055, 1086, 1078, 1072, 1083, 1091, 1081, 1089, 1090, 1072, 44, 32, 1074, 1074, 1077,
        1076, 1080, 1090, 1077, 32, 1074, 1086, 1087, 1088, 1086, 1089, 46>>,
  \* "Извините, не удалось обработать ваш запрос. Пожалуйста, уточните вопрос или попробуйте другой формат."
    rephrase |->
      <<1048, 1079, 1074, 1080, 1085, 1080, 1090, 1077, 44, 32, 1085, 1077, 32, 1091, 1076,
        1072, 1083, 1086, 1089, 1100, 32, 1086, 1073, 1088, 1072, 1073, 1086, 1090, 1072, 1090,
        1100, 32, 1074, 1072, 1096, 32, 1079, 1072, 1087, 1088, 1086, 1089, 46, 32, 1055, 1086,
        1078, 1072, 1083, 1091, 1081, 1089, 1090, 1072, 44, 32, 1091, 1090, 1086, 1095, 1085,
        1080, 1090, 1077, 32, 1074, 1086, 1087, 1088, 1086, 1089, 32, 1080, 1083, 1080, 32,
        1087, 1086, 1087, 1088, 1086, 1073, 1091, 1081, 1090, 1077, 32, 1076, 1088, 1091, 1075,
        1086, 1081, 32, 1092, 1086, 1088, 1084, 1072, 1090, 46>>,
  \* "Произошла ошибка при обработке запроса. Попробуйте позже."
    error |->
      <<1055, 1088, 1086, 1080, 1079, 1086, 1096, 1083, 1072, 32, 1086, 1096, 1080, 1073, 1082,
        1072, 32, 1087, 1088, 1080, 32, 1086, 1073, 1088, 1072, 1073, 1086, 1090, 1082, 1077,
        32, 1079, 1072, 1087, 1088, 1086, 1089, 1072, 46, 32, 1055, 1086, 1087, 1088, 1086,
        1073, 1091, 1081, 1090, 1077, 32, 1087, 1086, 1079, 1078, 1077, 46>> ]
\* ---- END string constants

\* ------------------------------------------------------------------------
\* Regular expressions (module re)
\* ------------------------------------------------------------------------
\* A pattern is a sequence of atoms.  An atom is a literal, a bounded greedy
\* repetition of a character class, or a group: an alternation of patterns
\* that is capturing or not.

\* max of a repetition without upper bound (+ and *)
Unbounded == -1

\* the classes \d, \s, [a-f0-9], [\s\d]
Digit == 48..57

Hex == (48..57) \cup (97..102)

Lit(p) ==
  [t |-> "lit", s |-> p, set |-> {}, min |-> 1, max |-> 1, alts |-> <<>>, cap |-> FALSE]

Rep(set, min, max) ==
  [t |-> "rep", s |-> <<>>, set |-> set, min |-> min, max |-> max, alts |-> <<>>, cap |-> FALSE]

Group(alts, cap) ==
  [t |-> "group", s |-> <<>>, set |-> {}, min |-> 1, max |-> 1, alts |-> alts, cap |-> cap]

\* ( pat )
Capture(pat) == Group(<<pat>>, TRUE)

\* (?: pat )?   greedy: pat is tried before the empty match
Optional(pat) == Group(<<pat, <<>>>>, FALSE)

\* the alternation of the names of a table, in the order of the table
Names(tbl) == [k \in 1..Len(tbl) |-> <<Lit(tbl[k].name)>>]

RECURSIVE Flatten(_)
Flatten(ss) == IF ss = <<>> THEN <<>> ELSE Head(ss) \o Flatten(Tail(ss))

\* the length of the longest run of characters of set at index i, up to max
RunLength(s, i, set, max) ==
  LET rest == Len(s) - i + 1
      limit == IF max = Unbounded \/ max > rest THEN rest ELSE max
  IN MaxOf({n \in 0..limit : \A j \in i..(i + n - 1) : s[j] \in set})

\* the matches of the rest of a pattern, behind the match first of its head
Continue(first, rest) ==
  [j \in 1..Len(rest) |-> [end |-> rest[j].end, caps |-> first.caps \o rest[j].caps]]

\* The matches of a pattern anchored at index i, in the order in which the
\* backtracking matcher finds them: each is the index after the match and
\* the texts of the capturing groups.
RECURSIVE MatchSeq(_, _, _)
RECURSIVE AtomMatches(_, _, _)
AtomMatches(s, i, a) ==
  IF a.t = "lit"
  THEN (IF MatchAt(s, i, a.s) THEN <<[end |-> i + Len(a.s), caps |-> <<>>]>> ELSE <<>>)
  ELSE IF a.t = "rep"
  THEN LET run == RunLength(s, i, a.set, a.max)
       IN [k \in 1..(run - a.min + 1) |-> [end |-> i + run + 1 - k, caps |-> <<>>]]
  ELSE LET ms == Flatten([k \in 1..Len(a.alts) |-> MatchSeq(s, i, a.alts[k])])
       IN IF a.cap
          THEN [k \in 1..Len(ms) |->
                  [end |-> ms[k].end, caps |-> <<SubSeq(s, i, ms[k].end - 1)>> \o ms[k].caps]]
          ELSE ms

MatchSeq(s, i, pat) ==
  IF pat = <<>> THEN <<[end |-> i, caps |-> <<>>]>>
  ELSE LET firsts == AtomMatches(s, i, Head(pat))
       IN Flatten([k \in 1..Len(firsts) |->
                     Continue(firsts[k], MatchSeq(s, firsts[k].end, Tail(pat)))])

\* no match of a pattern (None)
NoMatch == [ok |-> FALSE, start |-> 0, group |-> <<>>]

\* re.search: the first match at the leftmost index where the pattern
\* matches; group[n] is match.group(n)
re_search(pattern, string) ==
  LET starts == {i \in 1..Len(string) : MatchSeq(string, i, pattern) # <<>>}
  IN IF starts = {} THEN NoMatch
     ELSE [ok |-> TRUE, start |-> MinOf(starts),
           group |-> Head(MatchSeq(string, MinOf(starts), pattern)).caps]

\* dict.get(key, default) on a table of name/num entries
get(tbl, key, default) ==
  LET hits == {k \in 1..Len(tbl) : tbl[k].name = key}
  IN IF hits = {} THEN default ELSE tbl[MinOf(hits)].num

\* ------------------------------------------------------------------------
\* Date/time lexical parsers
\* ------------------------------------------------------------------------

\* (\d{1,2})\s+(MONTHS_PATTERN)\s+(\d{4})(?:\s+года)?
date_pattern ==
  << Capture(<<Rep(Digit, 1, 2)>>), Rep(WS, 1, Unbounded),
     Group(Names(MONTHS_GENITIVE), TRUE), Rep(WS, 1, Unbounded),
     Capture(<<Rep(Digit, 4, 4)>>),
     Optional(<<Rep(WS, 1, Unbounded), Lit(KW.goda)>>) >>

\* lines 54-58 of _parse_single_date for a match and the month number
\* MONTHS_GENITIVE gives its name (<<>>: None)
single_date_of(match, month) ==
  IF month = <<>> THEN [ok |-> FALSE, date |-> <<>>]
  ELSE [ok |-> TRUE,
        date |-> match.group[3] \o <<45>> \o month \o <<45>>
                 \o zfill(str(int_of(match.group[1])), 2)]

\* lines 51-58 of _parse_single_date for the result of re.search
single_date_match(match) ==
  IF ~match.ok THEN [ok |-> FALSE, date |-> <<>>]
  ELSE single_date_of(match, get(MONTHS_GENITIVE, match.group[2], <<>>))

\* _parse_single_date: [ok |-> FALSE] is None, else date is "YYYY-MM-DD"
_parse_single_date(text) == single_date_match(re_search(date_pattern, text))

\* с\s*(\d{1,2}):(\d{2})\s*(?:до|по)\s*(\d{1,2}):(\d{2})
time_pattern ==
  << Lit(KW.s), Rep(WS, 0, Unbounded),
     Capture(<<Rep(Digit, 1, 2)>>), Lit(<<58>>), Capture(<<Rep(Digit, 2, 2)>>),
     Rep(WS, 0, Unbounded), Group(<< <<Lit(KW.do)>>, <<Lit(KW.po)>> >>, FALSE),
     Rep(WS, 0, Unbounded),
     Capture(<<Rep(Digit, 1, 2)>>), Lit(<<58>>), Capture(<<Rep(Digit, 2, 2)>>) >>

\* lines 64-68 of _parse_time_range for the result of re.search
time_range_match(match) ==
  IF ~match.ok THEN [ok |-> FALSE, h1 |-> 0, m1 |-> 0, h2 |-> 0, m2 |-> 0]
  ELSE [ok |-> TRUE, h1 |-> int_of(match.group[1]), m1 |-> int_of(match.group[2]),
        h2 |-> int_of(match.group[3]), m2 |-> int_of(match.group[4])]

\* _parse_time_range: [ok |-> FALSE] is None
_parse_time_range(text) == time_range_match(re_search(time_pattern, text))

\* the calendar of datetime
IsLeap(y) == (y % 4 = 0 /\ y % 100 # 0) \/ y % 400 = 0

DaysInMonth(y, m) ==
  IF m = 2 THEN (IF IsLeap(y) THEN 29 ELSE 28)
  ELSE IF m \in {4, 6, 9, 11} THEN 30
  ELSE 31

\* datetime.MAXYEAR
MAXYEAR == 9999

\* the fields of a date string YYYY-MM-D.. and whether they are a date
date_fields(date_str, y, m, d) ==
  [ok |-> /\ Len(date_str) = 10
          /\ y >= 1 /\ m \in 1..12 /\ d >= 1 /\ d <= DaysInMonth(y, m),
   year |-> y, month |-> m, day |-> d]

\* datetime.strptime(date_str, "%Y-%m-%d"): not ok is ValueError
strptime(date_str) ==
  date_fields(date_str,
              DigitsValue(SubSeq(date_str, 1, 4)),
              DigitsValue(SubSeq(date_str, 6, 7)),
              DigitsValue(SubSeq(date_str, 9, Len(date_str))))

\* dt + timedelta(days=1); raises OverflowError past MAXYEAR
plus_one_day(dt) ==
  IF dt.day < DaysInMonth(dt.year, dt.month)
  THEN [dt EXCEPT !.day = dt.day + 1]
  ELSE IF dt.month < 12
  THEN [dt EXCEPT !.day = 1, !.month = dt.month + 1]
  ELSE [dt EXCEPT !.day = 1, !.month = 1, !.year = dt.year + 1]

\* datetime comparison  a < b  (the variant of the shift condition that
\* leaves an end equal to the start on the same day)
dt_lt(a, b) ==
  LET ka == <<a.year, a.month, a.day, a.hour, a.minute, a.second>>
      kb == <<b.year, b.month, b.day, b.hour, b.minute, b.second>>
      diff == {i \in 1..6 : ka[i] # kb[i]}
  IN diff # {} /\ ka[MinOf(diff)] < kb[MinOf(diff)]

\* datetime comparison  a <= b
dt_le(a, b) ==
  LET ka == <<a.year, a.month, a.day, a.hour, a.minute, a.second>>
      kb == <<b.year, b.month, b.day, b.hour, b.minute, b.second>>
      diff == {i \in 1..6 : ka[i] # kb[i]}
  IN diff = {} \/ ka[MinOf(diff)] < kb[MinOf(diff)]

\* dt.strftime("%Y-%m-%d %H:%M:%S+00:00")
strftime(dt) ==
  zfill(str(dt.year), 4) \o <<45>> \o zfill(str(dt.month), 2) \o <<45>>
  \o zfill(str(dt.day), 2) \o <<32>> \o zfill(str(dt.hour), 2) \o <<58>>
  \o zfill(str(dt.minute), 2) \o <<58>> \o zfill(str(dt.second), 2) \o SQL.utc

\* base.replace(hour=h, minute=m, second=0)
replace(base, h, m) ==
  [year |-> base.year, month |-> base.month, day |-> base.day,
   hour |-> h, minute |-> m, second |-> 0]

\* what _build_datetime_range gives when it raises
RangeRaised ==
  [raises |-> TRUE, start_dt |-> replace([year |-> 1, month |-> 1, day |-> 1], 0, 0),
   end_dt |-> replace([year |-> 1, month |-> 1, day |-> 1], 0, 0),
   start |-> <<>>, end |-> <<>>]

\* lines 80-81: the two datetimes and their ISO strings
range_of(start_dt, end_dt) ==
  [raises |-> FALSE, start_dt |-> start_dt, end_dt |-> end_dt,
   start |-> strftime(start_dt), end |-> strftime(end_dt)]

\* lines 78-81: an end that is not after the start moves to the next day
\* (OverflowError past MAXYEAR)
shift_end(start_dt, end_dt) ==
  IF dt_le(end_dt, start_dt)
  THEN (IF plus_one_day(end_dt).year > MAXYEAR THEN RangeRaised
        ELSE range_of(start_dt, plus_one_day(end_dt)))
  ELSE range_of(start_dt, end_dt)

\* lines 74-81 for the parsed base date (not ok: strptime raised); replace
\* raises ValueError for an hour or a minute out of range
build_range(base, time_range) ==
  IF ~base.ok THEN RangeRaised
  ELSE IF ~(time_range.h1 \in 0..23 /\ time_range.m1 \in 0..59) THEN RangeRaised
  ELSE IF ~(time_range.h2 \in 0..23 /\ time_range.m2 \in 0..59) THEN RangeRaised
  ELSE shift_end(replace(base, time_range.h1, time_range.m1),
                 replace(base, time_range.h2, time_range.m2))

\* _build_datetime_range: raises (ValueError from strptime or replace,
\* OverflowError from the day shift), or the two datetimes and their ISO
\* strings
_build_datetime_range(date_str, time_range) == build_range(strptime(date_str), time_range)

\* ------------------------------------------------------------------------
\* Entity extractors
\* ------------------------------------------------------------------------

\* _detect_metric_column if the last keyword of METRIC_KEYWORDS that occurs
\* in the text decided
_detect_metric_column_last(text, default) ==
  LET hits == {k \in 1..Len(METRIC_KEYWORDS) : In(METRIC_KEYWORDS[k].keyword, text)}
  IN IF hits # {} THEN METRIC_KEYWORDS[MaxOf(hits)].column ELSE default

\* _detect_metric_column: the column of the first keyword of METRIC_KEYWORDS
\* that occurs in the text, then the suffix checks, then the default
_detect_metric_column(text, default) ==
  LET hits == {k \in 1..Len(METRIC_KEYWORDS) : In(METRIC_KEYWORDS[k].keyword, text)}
  IN IF hits # {} THEN METRIC_KEYWORDS[MinOf(hits)].column
     ELSE IF In(KW.laykov, text) THEN METRIC_KEYWORDS[2].column
     ELSE IF In(KW.kommentar, text) THEN METRIC_KEYWORDS[3].column
     ELSE IF In(KW.zhalob, text) \/ In(KW.report, text) THEN METRIC_KEYWORDS[4].column
     ELSE default

\* the length of a creator id
HexLen == 32

\* id\s+([a-f0-9]{32})
creator_id_pattern ==
  << Lit(KW.id), Rep(WS, 1, Unbounded), Capture(<<Rep(Hex, HexLen, HexLen)>>) >>

\* больше\s+(\d+[\s\d]*)\s+просмотров
threshold_pattern ==
  << Lit(KW.bolshe), Rep(WS, 1, Unbounded),
     Capture(<<Rep(Digit, 1, Unbounded), Rep(WS \cup Digit, 0, Unbounded)>>),
     Rep(WS, 1, Unbounded), Lit(KW.prosmotrov) >>

\* threshold_str = group(1).replace(' ', ''); threshold = int(threshold_str):
\* whether int() succeeds, and its value
threshold_of(match) ==
  LET threshold_str == remove_spaces(match.group[1])
  IN [ok |-> int_ok(threshold_str),
      value |-> IF int_ok(threshold_str) THEN int_of(threshold_str) ELSE 0]

\* the primary rule's month_year_pattern:
\*   в\s+(январе|...|декабре)\s+(\d{4})\s+года
month_year_pattern ==
  << Lit(KW.v), Rep(WS, 1, Unbounded), Group(Names(month_map), TRUE),
     Rep(WS, 1, Unbounded), Capture(<<Rep(Digit, 4, 4)>>),
     Rep(WS, 1, Unbounded), Lit(KW.goda) >>

\* the fallback's month_year_pattern:
\*   в\s+(январе|...|декабре)\s+(\d{4})(?:\s+года)?
month_year_pattern_fallback ==
  << Lit(KW.v), Rep(WS, 1, Unbounded), Group(Names(month_map), TRUE),
     Rep(WS, 1, Unbounded), Capture(<<Rep(Digit, 4, 4)>>),
     Optional(<<Rep(WS, 1, Unbounded), Lit(KW.goda)>>) >>

\* (январ[ьяе]|феврал[ьяе]|март[ае]?|...|декабр[ьяе])\s+(\d{4})
month_year_pattern_any ==
  << Group([k \in 1..Len(month_any_alternatives) |->
              << Lit(month_any_alternatives[k].stem),
                 Rep({month_any_alternatives[k].suffix[x] :
                        x \in 1..Len(month_any_alternatives[k].suffix)},
                     1 - month_any_alternatives[k].optional, 1) >>], TRUE),
     Rep(WS, 1, Unbounded), Capture(<<Rep(Digit, 4, 4)>>) >>

\* с\s+(\d+)\s+(MONTH)\s+(\d{4})\s+по\s+(\d+)\s+(MONTH)\s+(\d{4})
date_range_pattern ==
  << Lit(KW.s), Rep(WS, 1, Unbounded), Capture(<<Rep(Digit, 1, Unbounded)>>),
     Rep(WS, 1, Unbounded), Group(Names(date_range_months), TRUE),
     Rep(WS, 1, Unbounded), Capture(<<Rep(Digit, 4, 4)>>),
     Rep(WS, 1, Unbounded), Lit(KW.po),
     Rep(WS, 1, Unbounded), Capture(<<Rep(Digit, 1, Unbounded)>>),
     Rep(WS, 1, Unbounded), Group(Names(date_range_months), TRUE),
     Rep(WS, 1, Unbounded), Capture(<<Rep(Digit, 4, 4)>>) >>

\* (январе|...|декабре)
month_pattern == << Group(Names(month_map), TRUE) >>

\* (\d{4})
year_pattern == << Capture(<<Rep(Digit, 4, 4)>>) >>


\* ------------------------------------------------------------------------
\* generate_sql_query: the stages of one request
\* ------------------------------------------------------------------------

\* what a rule or a stage yields: SQL (return sql), nothing (return None),
\* an exception that leaves the function, or a fall-through to what follows
Sql(rule, sql) == [kind |-> "sql", sql |-> sql, rule |-> rule]

None(rule) == [kind |-> "none", sql |-> <<>>, rule |-> rule]

Raise(rule) == [kind |-> "raise", sql |-> <<>>, rule |-> rule]

Fallthrough == [kind |-> "fallthrough", sql |-> <<>>, rule |-> "-"]

\* a rule that returns or raises ends the function; else the code below it
\* runs
OrElse(r, next) == IF r.kind # "fallthrough" THEN r ELSE next

\* the threshold of the distinct-creators rule when the text gives none
DefaultThreshold == 100000

\* the first known question, in dict order, that occurs in the text
first_known(hits) ==
  IF hits = {} THEN Fallthrough ELSE Sql("exact", test_queries[MinOf(hits)].sql)

\* the variant of the exact lookup that compares without .lower()
exact_lookup_case_sensitive(user_query) ==
  first_known({k \in 1..Len(test_queries) : In(test_queries[k].q, user_query)})

\* EXACT_LOOKUP: the first known question, in dict order, whose lower-case
\* form occurs in the lower-case text
exact_lookup(user_query) ==
  first_known({k \in 1..Len(test_queries) :
                 In(lower(test_queries[k].q), lower(user_query))})

\* the guard of the negative-delta rule without its innermost condition
negative_snapshot_guard(query_lower) ==
  /\ In(KW.otricatelnym, query_lower) \/ In(KW.otricatelnoe, query_lower)
  /\ \/ In(KW.zamer, query_lower)
     \/ In(KW.snapshot, query_lower)
     \/ In(KW.statistik, query_lower)

\* the negative-delta rule if only the column name, not "просмотров",
\* fired it
negative_delta_rule_column_only(query_lower) ==
  IF negative_snapshot_guard(query_lower) /\ In(KW.delta_views_count, query_lower)
  THEN Sql("negative_delta", SQL.neg_delta)
  ELSE Fallthrough

negative_delta_rule(query_lower) ==
  IF /\ negative_snapshot_guard(query_lower)
     /\ In(KW.delta_views_count, query_lower) \/ In(KW.prosmotrov, query_lower)
  THEN Sql("negative_delta", SQL.neg_delta)
  ELSE Fallthrough

sum_words(query_lower) ==
  \/ In(KW.summarnoe, query_lower)
  \/ In(KW.summa, query_lower)
  \/ In(KW.summu, query_lower)

\* the month/year rule if it looked for "сколько" before the sum-words
month_year_sql_count_first(year, month_num, query_lower) ==
  IF In(KW.skolko, query_lower)
  THEN Sql("month_year_count",
           SQL.count_year \o year \o SQL.and_month \o str(month_num))
  ELSE IF sum_words(query_lower)
  THEN Sql("month_year_sum",
           SQL.sum_views_year \o year \o SQL.and_month \o str(month_num))
  ELSE Fallthrough

\* the two SQL strings of the month/year rule for a year and a month
month_year_sql(year, month_num, query_lower) ==
  IF sum_words(query_lower)
  THEN Sql("month_year_sum",
           SQL.sum_views_year \o year \o SQL.and_month \o str(month_num))
  ELSE IF In(KW.skolko, query_lower)
  THEN Sql("month_year_count",
           SQL.count_year \o year \o SQL.and_month \o str(month_num))
  ELSE Fallthrough

\* the month/year rule for the result of re.search
month_year_match(match, query_lower) ==
  IF match.ok
  THEN month_year_sql(match.group[2], get(month_map, match.group[1], 6), query_lower)
  ELSE Fallthrough

month_year_rule(query_lower) ==
  month_year_match(re_search(month_year_pattern, query_lower), query_lower)

distinct_creators_guard(query_lower) ==
  /\ In(KW.kreator, query_lower)
  /\ In(KW.raznyh, query_lower)
  /\ In(KW.prosmotr, query_lower)

\* threshold = int(threshold_str) and the SQL built from it
threshold_sql(rule, threshold, prefix) ==
  IF ~threshold.ok THEN Raise(rule) ELSE Sql(rule, prefix \o str(threshold.value))

\* the distinct-creators rule if it never read the threshold of the text
distinct_creators_match_default(threshold_match) ==
  Sql("distinct_creators", SQL.distinct_creators \o str(DefaultThreshold))

\* the distinct-creators rule for the result of re.search
distinct_creators_match(threshold_match) ==
  IF ~threshold_match.ok
  THEN Sql("distinct_creators", SQL.distinct_creators \o str(DefaultThreshold))
  ELSE threshold_sql("distinct_creators", threshold_of(threshold_match),
                     SQL.distinct_creators)

distinct_creators_rule(query_lower) ==
  IF ~distinct_creators_guard(query_lower) THEN Fallthrough
  ELSE distinct_creators_match(re_search(threshold_pattern, query_lower))

\* the calendar-days SQL for a match and the month number of its word
\* (0: month_map_any has no such word)
calendar_days_sql(creator_id, my_match, month_num) ==
  IF my_match.ok /\ month_num # 0
  THEN Sql("creator_calendar_days",
           SQL.cal_days \o creator_id \o SQL.q_and_year \o my_match.group[2]
           \o SQL.and_month \o str(month_num))
  ELSE Fallthrough

calendar_days_match(creator_id, my_match) ==
  calendar_days_sql(creator_id, my_match,
                    IF my_match.ok THEN get(month_map_any, my_match.group[1], 0) ELSE 0)

\* creator sub-rule: calendar days of a month on which the creator published
calendar_days_rule(creator_id, query_lower) ==
  IF /\ In(KW.kalendar, query_lower)
     /\ \/ In(KW.dnya, query_lower)
        \/ In(KW.dney, query_lower)
        \/ In(KW.dnyah, query_lower)
  THEN calendar_days_match(creator_id, re_search(month_year_pattern_any, query_lower))
  ELSE Fallthrough

\* the variant of the time-window SQL that ends with  vs.created_at <= end
time_window_sql_closed(creator_id, metric_column, range) ==
  IF range.raises THEN Raise("creator_time_window")
  ELSE Sql("creator_time_window",
           SQL.window_a \o metric_column \o SQL.window_b \o creator_id
           \o SQL.window_c \o range.start
           \o <<39, 32, 65, 78, 68, 32, 118, 115, 46, 99, 114, 101, 97, 116, 101, 100, 95, 97, 116, 32, 60, 61, 32, 39>>
           \o range.end \o SQL.quote)

\* the time-window SQL for a datetime range
time_window_sql(creator_id, metric_column, range) ==
  IF range.raises THEN Raise("creator_time_window")
  ELSE Sql("creator_time_window",
           SQL.window_a \o metric_column \o SQL.window_b \o creator_id
           \o SQL.window_c \o range.start \o SQL.window_d \o range.end
           \o SQL.quote)

\* the time-window rule for the parsed date and time range
time_window_parsed(creator_id, query_lower, single_date, time_range) ==
  IF /\ single_date.ok
     /\ time_range.ok
     /\ \/ In(KW.prosmotr, query_lower)
        \/ In(KW.delta, query_lower)
        \/ In(KW.prirost, query_lower)
  THEN time_window_sql(creator_id,
                       _detect_metric_column(query_lower, METRIC_KEYWORDS[1].column),
                       _build_datetime_range(single_date.date, time_range))
  ELSE Fallthrough

\* creator sub-rule: a single date and a time range, for snapshot deltas
time_window_rule(creator_id, query_lower) ==
  time_window_parsed(creator_id, query_lower,
                     _parse_single_date(query_lower), _parse_time_range(query_lower))

\* the variant of the date of a range that leaves the day as written
range_date_unpadded(year, month_name, day) ==
  year \o <<45>> \o get(date_range_months, month_name, MONTHS_GENITIVE[11].num)
  \o <<45>> \o day

\* f"{year}-{month}-{day.zfill(2)}" with month_map.get(name, '11')
range_date(year, month_name, day) ==
  year \o <<45>> \o get(date_range_months, month_name, MONTHS_GENITIVE[11].num)
  \o <<45>> \o zfill(day, 2)

\* the date-range rule for the result of re.search
date_range_match(creator_id, match) ==
  IF match.ok
  THEN Sql("creator_date_range",
           SQL.creator \o creator_id \o SQL.range_from
           \o range_date(match.group[3], match.group[2], match.group[1])
           \o SQL.range_to
           \o range_date(match.group[6], match.group[5], match.group[4])
           \o SQL.end_of_day \o SQL.quote)
  ELSE Fallthrough

\* creator sub-rule: "с 1 ноября 2025 по 5 ноября 2025"
date_range_rule(creator_id, query_lower) ==
  date_range_match(creator_id, re_search(date_range_pattern, query_lower))

\* the threshold rule of a creator for the result of re.search
creator_threshold_match(creator_id, threshold_match) ==
  IF ~threshold_match.ok
  THEN Sql("creator_count", SQL.creator \o creator_id \o SQL.quote)
  ELSE threshold_sql("creator_threshold", threshold_of(threshold_match),
                     SQL.creator \o creator_id \o SQL.creator_views)

\* creator sub-rule: the views threshold, else the plain count (terminal)
creator_threshold_rule(creator_id, query_lower) ==
  creator_threshold_match(creator_id, re_search(threshold_pattern, query_lower))

\* the creator branch of generate_sql_query for the result of re.search
creator_match_rules(creator_match, query_lower) ==
  IF ~creator_match.ok THEN Fallthrough
  ELSE OrElse(calendar_days_rule(creator_match.group[1], query_lower),
       OrElse(time_window_rule(creator_match.group[1], query_lower),
       OrElse(date_range_rule(creator_match.group[1], query_lower),
              creator_threshold_rule(creator_match.group[1], query_lower))))

creator_rules(query_lower) ==
  creator_match_rules(re_search(creator_id_pattern, query_lower), query_lower)

\* the rule matchers on the lower-case text, in the order of the code
rules_lower(query_lower) ==
  OrElse(negative_delta_rule(query_lower),
  OrElse(month_year_rule(query_lower),
  OrElse(distinct_creators_rule(query_lower),
         creator_rules(query_lower))))

\* RULES: the primary rule matchers
primary_rules(user_query) == rules_lower(lower(user_query))

\* ---- RULE_FALLBACK: _get_fallback_sql

\* the variant of the fallback's creator branch that looks for a threshold
\* before it looks for a date range
fallback_creator_threshold_first(creator_match, query_lower) ==
  IF ~creator_match.ok THEN Fallthrough
  ELSE IF re_search(threshold_pattern, query_lower).ok
  THEN creator_threshold_rule(creator_match.group[1], query_lower)
  ELSE OrElse(date_range_rule(creator_match.group[1], query_lower),
              creator_threshold_rule(creator_match.group[1], query_lower))

fallback_creator_match(creator_match, query_lower) ==
  IF ~creator_match.ok THEN Fallthrough
  ELSE OrElse(date_range_rule(creator_match.group[1], query_lower),
              creator_threshold_rule(creator_match.group[1], query_lower))

fallback_creator_rules(query_lower) ==
  fallback_creator_match(re_search(creator_id_pattern, query_lower), query_lower)

fallback_month_year_rule(query_lower) ==
  month_year_match(re_search(month_year_pattern_fallback, query_lower), query_lower)

fallback_negative_delta_rule(query_lower) ==
  IF negative_snapshot_guard(query_lower) /\ In(KW.prosmotrov, query_lower)
  THEN Sql("negative_delta", SQL.neg_delta)
  ELSE Fallthrough

\* "General patterns for common queries"
fallback_general_rule(query_lower) ==
  IF In(KW.skolko_vsego_video, query_lower) \/ In(KW.total_videos, query_lower)
  THEN Sql("general_total", SQL.total)
  ELSE IF In(KW.bolshe_100, query_lower) /\ In(KW.prosmotrov, query_lower)
  THEN Sql("general_over100k", SQL.over100k)
  ELSE IF In(KW.vyrosli, query_lower) /\ In(KW.d28_noyabrya, query_lower)
  THEN Sql("general_growth28", SQL.growth28)
  ELSE IF In(KW.novye_prosmotry, query_lower) /\ In(KW.d27_noyabrya, query_lower)
  THEN Sql("general_new27", SQL.new27)
  ELSE Fallthrough

\* the sum rule with "2025" in the text, for the results of the two searches
sum_dated(month_match, year_match) ==
  IF month_match.ok
  THEN Sql("sum_month",
           SQL.sum_views_year
           \o (IF year_match.ok THEN year_match.group[1] ELSE KW.y2025)
           \o SQL.and_month \o str(get(month_map, month_match.group[1], 6)))
  ELSE IF year_match.ok THEN Sql("sum_year", SQL.sum_views_year \o year_match.group[1])
  ELSE Fallthrough

\* "General sum of views queries"
fallback_sum_rule(query_lower) ==
  IF ~(sum_words(query_lower) /\ In(KW.prosmotrov, query_lower)) THEN Fallthrough
  ELSE IF ~In(KW.y2025, query_lower) THEN Sql("sum_all", SQL.sum_views_all)
  ELSE sum_dated(re_search(month_pattern, query_lower),
                 re_search(year_pattern, query_lower))

\* the fallback matchers on the lower-case text, in the order of the code
fallback_lower(query_lower) ==
  OrElse(fallback_creator_rules(query_lower),
  OrElse(fallback_month_year_rule(query_lower),
  OrElse(fallback_negative_delta_rule(query_lower),
  OrElse(distinct_creators_rule(query_lower),
  OrElse(fallback_general_rule(query_lower),
  OrElse(fallback_sum_rule(query_lower),
         None("no_rule")))))))

_get_fallback_sql(user_query) == fallback_lower(lower(user_query))


\* ---- LLM_CALL

\* what the completion call and the decoding of its content can give:
\*   raises           the call raises (network/API error)
\*   no_choices       response.choices is empty (IndexError)
\*   content_none     message.content is None (AttributeError on .strip())
\*   not_json         json.loads raises JSONDecodeError
\*   json_not_object  the JSON value has no .get: a list, a string, a number
\*   sql_missing      a JSON object without "sql" (.get gives "")
\*   sql_not_string   "sql" is null or a number (AttributeError on .strip())
\*   sql_string       "sql" is the string in field sql
LLMKinds ==
  {"raises", "no_choices", "content_none", "not_json", "json_not_object",
   "sql_missing", "sql_not_string", "sql_string"}

\* the cases that leave the try block through  except Exception  (line 359)
llm_exception(llm) ==
  llm.kind \in {"raises", "no_choices", "content_none", "json_not_object", "sql_not_string"}

\* the variant of lines 350-354 without the SELECT check
unchecked_sql(sql) ==
  IF sql # <<>> THEN Sql("llm", sql) ELSE None("llm_invalid_sql")

\* lines 349-354: the stripped "sql" of the decoded object
checked_sql(sql) ==
  IF sql # <<>> /\ startswith(upper(sql), KW.SELECT) THEN Sql("llm", sql)
  ELSE None("llm_invalid_sql")

\* lines 344-357 for a response that raised nothing so far
llm_result(llm) ==
  IF llm.kind = "not_json" THEN None("llm_not_json")
  ELSE checked_sql(strip(IF llm.kind = "sql_string" THEN llm.sql ELSE <<>>))

\* the outcome of a stage, with the stages the request ran through and the
\* number of completion calls it made
Staged(r, stages, calls) ==
  [kind |-> r.kind, sql |-> r.sql, rule |-> r.rule, stages |-> stages, llm_calls |-> calls]

\* lines 170-324: the exact lookup, then the rule matchers
rule_stages(user_query) ==
  OrElse(Staged(exact_lookup(user_query), <<"EXACT_LOOKUP">>, 0),
         Staged(primary_rules(user_query), <<"EXACT_LOOKUP", "RULES">>, 0))

\* lines 326-362: the fallback without a client; else the completion call,
\* and the fallback when it raises
llm_stages(user_query, client, llm) ==
  IF client = "none"
  THEN Staged(_get_fallback_sql(user_query),
              <<"EXACT_LOOKUP", "RULES", "RULE_FALLBACK">>, 0)
  ELSE IF llm_exception(llm)
  THEN Staged(_get_fallback_sql(user_query),
              <<"EXACT_LOOKUP", "RULES", "LLM_CALL", "RULE_FALLBACK">>, 1)
  ELSE Staged(llm_result(llm), <<"EXACT_LOOKUP", "RULES", "LLM_CALL">>, 1)

\* generate_sql_query(user_query) of a processor whose client is "ok" or
\* "none" (None), when the completion call, if made, behaves as llm
generate_sql_query(user_query, client, llm) ==
  OrElse(rule_stages(user_query), llm_stages(user_query, client, llm))

\* ------------------------------------------------------------------------
\* The result executor and the database cursor
\* ------------------------------------------------------------------------

\* A database behaviour db says how each call of one round trip ends:
\*   connect  "ok" | "error" | "retry_ok" | "retry_error" (the first connect
\*            fails on the host name postgres and the URL names @postgres:
\*            a second connect to localhost follows)
\*   execute  "ok" | "raise"     cursor.execute / cursor.fetchone
\*   row      "none" (fetchone gives None) or the first cell of the row
\*   commit   "ok" | "raise"
\* A cell is [t |-> type, v |-> n]: t = "int" or "bool" with value v,
\* "float" with value v/10, "nan", "inf", "decimal", "str", "null".

NoRow == [t |-> "none", v |-> 0]

\* get_db_connection up to its yield: the calls made and whether a
\* connection exists
db_connect(db) ==
  IF db.connect = "ok" THEN [ops |-> <<"connect">>, conn |-> TRUE]
  ELSE IF db.connect = "error" THEN [ops |-> <<"connect">>, conn |-> FALSE]
  ELSE IF db.connect = "retry_ok"
  THEN [ops |-> <<"connect", "connect_localhost">>, conn |-> TRUE]
  ELSE [ops |-> <<"connect", "connect_localhost">>, conn |-> FALSE]

\* isinstance(value, (int, float))
is_number(value) == value.t \in {"int", "bool", "float", "nan", "inf"}

\* int(value) raises ValueError for NaN and OverflowError for an infinity
int_raises(value) == value.t \in {"nan", "inf"}

\* the variant of int(value) that rounds a float down (math.floor)
floor_value(value) ==
  IF value.t = "float" THEN value.v \div 10 ELSE value.v

\* int(value): a float is truncated towards zero
int_value(value) ==
  IF value.t = "float"
  THEN (IF value.v >= 0 THEN value.v \div 10 ELSE -((-value.v) \div 10))
  ELSE value.v

IntResult(n) == [kind |-> "int", value |-> n]

NoneResult == [kind |-> "none", value |-> 0]

RaisedResult == [kind |-> "raise", value |-> 0]

\* the body of the with block of execute_query_and_get_result: the cursor
\* calls, whether it raises, whether what it raises is no Exception (a
\* KeyboardInterrupt: never, here), and what it returns
query_body(db) ==
  IF db.execute = "raise"
  THEN [ops |-> <<"execute">>, raises |-> TRUE, interrupted |-> FALSE, ret |-> NoneResult]
  ELSE IF db.row = NoRow
  THEN [ops |-> <<"execute", "fetchone">>, raises |-> FALSE, interrupted |-> FALSE,
        ret |-> NoneResult]
  ELSE IF ~is_number(db.row)
  THEN [ops |-> <<"execute", "fetchone">>, raises |-> FALSE, interrupted |-> FALSE,
        ret |-> NoneResult]
  ELSE IF int_raises(db.row)
  THEN [ops |-> <<"execute", "fetchone">>, raises |-> TRUE, interrupted |-> FALSE,
        ret |-> NoneResult]
  ELSE [ops |-> <<"execute", "fetchone">>, raises |-> FALSE, interrupted |-> FALSE,
        ret |-> IntResult(int_value(db.row))]

\* get_db_cursor if it committed after every body, raised or not
get_db_cursor_always_commit(db, body) ==
  LET c == db_connect(db)
  IN IF ~c.conn
     THEN [ops |-> c.ops, raises |-> TRUE, interrupted |-> FALSE, ret |-> NoneResult]
     ELSE [ops |-> c.ops \o <<"cursor">> \o body.ops \o <<"commit", "close">>,
           raises |-> body.raises, interrupted |-> body.interrupted, ret |-> body.ret]

\* get_db_cursor around a body: commit after a body that raised nothing,
\* rollback and re-raise after an Exception, of the body or of the commit;
\* an exception that is no Exception passes  except Exception  untouched;
\* then the connection is closed
get_db_cursor(db, body) ==
  LET c == db_connect(db)
  IN IF ~c.conn
     THEN [ops |-> c.ops, raises |-> TRUE, interrupted |-> FALSE, ret |-> NoneResult]
     ELSE IF body.raises /\ body.interrupted
     THEN [ops |-> c.ops \o <<"cursor">> \o body.ops \o <<"close">>,
           raises |-> TRUE, interrupted |-> TRUE, ret |-> NoneResult]
     ELSE IF body.raises
     THEN [ops |-> c.ops \o <<"cursor">> \o body.ops \o <<"rollback", "close">>,
           raises |-> TRUE, interrupted |-> FALSE, ret |-> NoneResult]
     ELSE IF db.commit = "raise"
     THEN [ops |-> c.ops \o <<"cursor">> \o body.ops \o <<"commit", "rollback", "close">>,
           raises |-> TRUE, interrupted |-> FALSE, ret |-> NoneResult]
     ELSE [ops |-> c.ops \o <<"cursor">> \o body.ops \o <<"commit", "close">>,
           raises |-> FALSE, interrupted |-> FALSE, ret |-> body.ret]

\* execute_query_and_get_result if it handed the SQL to the cursor in
\* capitals
execute_query_and_get_result_upper(sql_query, db) ==
  LET run == get_db_cursor(db, query_body(db))
  IN [result |-> IF run.raises THEN NoneResult ELSE run.ret,
      ops |-> run.ops,
      executed |-> IF "execute" \in {run.ops[k] : k \in 1..Len(run.ops)}
                   THEN <<upper(sql_query)>> ELSE <<>>]

\* execute_query_and_get_result: every exception becomes None
execute_query_and_get_result(sql_query, db) ==
  LET run == get_db_cursor(db, query_body(db))
  IN [result |-> IF run.raises THEN NoneResult ELSE run.ret,
      ops |-> run.ops,
      executed |-> IF "execute" \in {run.ops[k] : k \in 1..Len(run.ops)}
                   THEN <<sql_query>> ELSE <<>>]

\* ---- import_data

\* a row import_data inserts: video number v of the file, or its snapshot
\* number s
Row(table, v, s) == [table |-> table, video |-> v, snapshot |-> s]

\* insert_videos: one row for every video of the file, in order (videos[v]
\* is the number of snapshots of video v)
video_rows(videos) == [v \in 1..Len(videos) |-> Row("videos", v, 0)]

\* the loop over insert_snapshots from video v on: the snapshots of each
\* video, video by video
RECURSIVE snapshot_rows(_, _)
snapshot_rows(videos, v) ==
  IF v > Len(videos) THEN <<>>
  ELSE [s \in 1..videos[v] |-> Row("video_snapshots", v, s)] \o snapshot_rows(videos, v + 1)

\* cursor.execute for each of the rows, the first of them being execute
\* number first_execute of the run; execute number db.fail_at raises an
\* Exception or is interrupted
insert_rows(rows, first_execute, db) ==
  IF db.fail_at - first_execute + 1 \in 1..Len(rows)
  THEN [ops |-> [k \in 1..(db.fail_at - first_execute + 1) |-> rows[k].table],
        raises |-> TRUE, interrupted |-> db.fail_kind = "interrupt", ret |-> NoneResult,
        rows |-> SubSeq(rows, 1, db.fail_at - first_execute)]
  ELSE [ops |-> [k \in 1..Len(rows) |-> rows[k].table],
        raises |-> FALSE, interrupted |-> FALSE, ret |-> NoneResult,
        rows |-> rows]

\* one  with get_db_cursor()  block around a body of inserts, and how
\* import_data ends after it: the rows are committed when the block ends
\* without raising; an Exception gives sys.exit(1), a KeyboardInterrupt
\* passes  except Exception  and ends the process with status 130
import_block(db, body) ==
  LET run == get_db_cursor(db, body)
  IN [ops |-> run.ops,
      status |-> IF ~run.raises THEN 0 ELSE IF run.interrupted THEN 130 ELSE 1,
      committed |-> IF run.raises THEN <<>> ELSE body.rows]

ImportOutcome(ops, status, committed) ==
  [ops |-> ops, status |-> status, committed |-> committed]

\* import_data if the videos and the snapshots each had a block of their own
import_data_two_blocks(file, db) ==
  IF file.kind = "unreadable" THEN ImportOutcome(<<>>, 1, <<>>)
  ELSE IF file.videos = <<>> THEN ImportOutcome(<<>>, 0, <<>>)
  ELSE LET one == import_block(db, insert_rows(video_rows(file.videos), 1, db))
           two == import_block(db, insert_rows(snapshot_rows(file.videos, 1),
                                               Len(file.videos) + 1, db))
       IN IF one.status # 0 THEN one
          ELSE ImportOutcome(one.ops \o two.ops, two.status, one.committed \o two.committed)

\* import_data: a file that cannot be read or decoded ends with status 1, a
\* file without videos ends at once; else every video and then every
\* snapshot is inserted in one block
import_data(file, db) ==
  IF file.kind = "unreadable" THEN ImportOutcome(<<>>, 1, <<>>)
  ELSE IF file.videos = <<>> THEN ImportOutcome(<<>>, 0, <<>>)
  ELSE import_block(db, insert_rows(video_rows(file.videos) \o snapshot_rows(file.videos, 1),
                                    1, db))


\* ------------------------------------------------------------------------
\* Inputs: the texts users send, the answers of the LLM, the behaviours of
\* the database
\* ------------------------------------------------------------------------
\* ---- BEGIN input fragments
\* fragments of user texts
FRAG ==
  \* "Сколько всего видео есть в системе?"
  [ q1 |->
      <<1057, 1082, 1086, 1083, 1100, 1082, 1086, 32, 1074, 1089, 1077, 1075, 1086, 32, 1074,
        1080, 1076, 1077, 1086, 32, 1077, 1089, 1090, 1100, 32, 1074, 32, 1089, 1080, 1089,
        1090, 1077, 1084, 1077, 63>>,
  \* "Сколько видео набрало больше 100 000 просмотров?"
    q2 |->
      <<1057, 1082, 1086, 1083, 1100, 1082, 1086, 32, 1074, 1080, 1076, 1077, 1086, 32, 1085,
        1072, 1073, 1088, 1072, 1083, 1086, 32, 1073, 1086, 1083, 1100, 1096, 1077, 32, 49, 48,
        48, 32, 48, 48, 48, 32, 1087, 1088, 1086, 1089, 1084, 1086, 1090, 1088, 1086, 1074, 63>>,
  \* "На сколько просмотров в сумме выросли все видео 28 ноября 2025?"
    q3 |->
      <<1053, 1072, 32, 1089, 1082, 1086, 1083, 1100, 1082, 1086, 32, 1087, 1088, 1086, 1089,
        1084, 1086, 1090, 1088, 1086, 1074, 32, 1074, 32, 1089, 1091, 1084, 1084, 1077, 32,
        1074, 1099, 1088, 1086, 1089, 1083, 1080, 32, 1074, 1089, 1077, 32, 1074, 1080, 1076,
        1077, 1086, 32, 50, 56, 32, 1085, 1086, 1103, 1073, 1088, 1103, 32, 50, 48, 50, 53, 63>>,
  \* "Сколько разных видео получали новые просмотры 27 ноября 2025?"
    q4 |->
      <<1057, 1082, 1086, 1083, 1100, 1082, 1086, 32, 1088, 1072, 1079, 1085, 1099, 1093, 32,
        1074, 1080, 1076, 1077, 1086, 32, 1087, 1086, 1083, 1091, 1095, 1072, 1083, 1080, 32,
        1085, 1086, 1074, 1099, 1077, 32, 1087, 1088, 1086, 1089, 1084, 1086, 1090, 1088, 1099,
        32, 50, 55, 32, 1085, 1086, 1103, 1073, 1088, 1103, 32, 50, 48, 50, 53, 63>>,
  \* "сколько всего видео есть в системе?"
    q1_lower |->
      <<1089, 1082, 1086, 1083, 1100, 1082, 1086, 32, 1074, 1089, 1077, 1075, 1086, 32, 1074,
        1080, 1076, 1077, 1086, 32, 1077, 1089, 1090, 1100, 32, 1074, 32, 1089, 1080, 1089,
        1090, 1077, 1084, 1077, 63>>,
  \* "НА СКОЛЬКО ПРОСМОТРОВ В СУММЕ ВЫРОСЛИ ВСЕ ВИДЕО 28 НОЯБРЯ 2025?"
    q3_upper |->
      <<1053, 1040, 32, 1057, 1050, 1054, 1051, 1068, 1050, 1054, 32, 1055, 1056, 1054, 1057,
        1052, 1054, 1058, 1056, 1054, 1042, 32, 1042, 32, 1057, 1059, 1052, 1052, 1045, 32,
        1042, 1067, 1056, 1054, 1057, 1051, 1048, 32, 1042, 1057, 1045, 32, 1042, 1048, 1044,
        1045, 1054, 32, 50, 56, 32, 1053, 1054, 1071, 1041, 1056, 1071, 32, 50, 48, 50, 53, 63>>,
  \* "Сколько всего видео есть в системе"
    q1_no_mark |->
      <<1057, 1082, 1086, 1083, 1100, 1082, 1086, 32, 1074, 1089, 1077, 1075, 1086, 32, 1074,
        1080, 1076, 1077, 1086, 32, 1077, 1089, 1090, 1100, 32, 1074, 32, 1089, 1080, 1089,
        1090, 1077, 1084, 1077>>,
  \* "Привет!"
    hello |->
      <<1055, 1088, 1080, 1074, 1077, 1090, 33>>,
  \* "Сколько"
    skolko |->
      <<1057, 1082, 1086, 1083, 1100, 1082, 1086>>,
  \* "суммарное"
    summarnoe |->
      <<1089, 1091, 1084, 1084, 1072, 1088, 1085, 1086, 1077>>,
  \* "отрицательным"
    otricatelnym |->
      <<1086, 1090, 1088, 1080, 1094, 1072, 1090, 1077, 1083, 1100, 1085, 1099, 1084>>,
  \* "замеров"
    zamerov |->
      <<1079, 1072, 1084, 1077, 1088, 1086, 1074>>,
  \* "разных"
    raznyh |->
      <<1088, 1072, 1079, 1085, 1099, 1093>>,
  \* "креаторов"
    kreatorov |->
      <<1082, 1088, 1077, 1072, 1090, 1086, 1088, 1086, 1074>>,
  \* "больше 500 просмотров"
    bolshe_500 |->
      <<1073, 1086, 1083, 1100, 1096, 1077, 32, 53, 48, 48, 32, 1087, 1088, 1086, 1089, 1084,
        1086, 1090, 1088, 1086, 1074>>,
  \* "больше 100\t000 просмотров"
    bolshe_100_tab |->
      <<1073, 1086, 1083, 1100, 1096, 1077, 32, 49, 48, 48, 9, 48, 48, 48, 32, 1087, 1088,
        1086, 1089, 1084, 1086, 1090, 1088, 1086, 1074>>,
  \* "больше 1000 просмотров"
    bolshe_1000 |->
      <<1073, 1086, 1083, 1100, 1096, 1077, 32, 49, 48, 48, 48, 32, 1087, 1088, 1086, 1089,
        1084, 1086, 1090, 1088, 1086, 1074>>,
  \* "просмотров"
    prosmotrov |->
      <<1087, 1088, 1086, 1089, 1084, 1086, 1090, 1088, 1086, 1074>>,
  \* "в июне 2025 года"
    v_iyune_goda |->
      <<1074, 32, 1080, 1102, 1085, 1077, 32, 50, 48, 50, 53, 32, 1075, 1086, 1076, 1072>>,
  \* "в июне 2025"
    v_iyune |->
      <<1074, 32, 1080, 1102, 1085, 1077, 32, 50, 48, 50, 53>>,
  \* "сколько всего видео"
    skolko_vsego_video |->
      <<1089, 1082, 1086, 1083, 1100, 1082, 1086, 32, 1074, 1089, 1077, 1075, 1086, 32, 1074,
        1080, 1076, 1077, 1086>>,
  \* "выросли 28 ноября"
    vyrosli_28 |->
      <<1074, 1099, 1088, 1086, 1089, 1083, 1080, 32, 50, 56, 32, 1085, 1086, 1103, 1073, 1088,
        1103>>,
  \* "2025"
    y2025 |->
      <<50, 48, 50, 53>>,
  \* "delta_views_count"
    delta_views_count |->
      <<100, 101, 108, 116, 97, 95, 118, 105, 101, 119, 115, 95, 99, 111, 117, 110, 116>>,
  \* "id 0123456789abcdef0123456789abcdef"
    id32 |->
      <<105, 100, 32, 48, 49, 50, 51, 52, 53, 54, 55, 56, 57, 97, 98, 99, 100, 101, 102, 48,
        49, 50, 51, 52, 53, 54, 55, 56, 57, 97, 98, 99, 100, 101, 102>>,
  \* "ID 0123456789ABCDEF0123456789ABCDEF"
    id32_upper |->
      <<73, 68, 32, 48, 49, 50, 51, 52, 53, 54, 55, 56, 57, 65, 66, 67, 68, 69, 70, 48, 49, 50,
        51, 52, 53, 54, 55, 56, 57, 65, 66, 67, 68, 69, 70>>,
  \* "id 0123456789abcdef0123456789abcde"
    id31 |->
      <<105, 100, 32, 48, 49, 50, 51, 52, 53, 54, 55, 56, 57, 97, 98, 99, 100, 101, 102, 48,
        49, 50, 51, 52, 53, 54, 55, 56, 57, 97, 98, 99, 100, 101>>,
  \* "id 0123456789abcdef0123456789abcdef0"
    id33 |->
      <<105, 100, 32, 48, 49, 50, 51, 52, 53, 54, 55, 56, 57, 97, 98, 99, 100, 101, 102, 48,
        49, 50, 51, 52, 53, 54, 55, 56, 57, 97, 98, 99, 100, 101, 102, 48>>,
  \* "календарных дней ноября 2025"
    cal_noyabrya |->
      <<1082, 1072, 1083, 1077, 1085, 1076, 1072, 1088, 1085, 1099, 1093, 32, 1076, 1085, 1077,
        1081, 32, 1085, 1086, 1103, 1073, 1088, 1103, 32, 50, 48, 50, 53>>,
  \* "календарных дня март 2025"
    cal_mart |->
      <<1082, 1072, 1083, 1077, 1085, 1076, 1072, 1088, 1085, 1099, 1093, 32, 1076, 1085, 1103,
        32, 1084, 1072, 1088, 1090, 32, 50, 48, 50, 53>>,
  \* "28 ноября 2025"
    d28 |->
      <<50, 56, 32, 1085, 1086, 1103, 1073, 1088, 1103, 32, 50, 48, 50, 53>>,
  \* "31 февраля 2025"
    d31_feb |->
      <<51, 49, 32, 1092, 1077, 1074, 1088, 1072, 1083, 1103, 32, 50, 48, 50, 53>>,
  \* "31 декабря 9999"
    d31_dec_9999 |->
      <<51, 49, 32, 1076, 1077, 1082, 1072, 1073, 1088, 1103, 32, 57, 57, 57, 57>>,
  \* "с 22:00 до 02:00"
    t22_02 |->
      <<1089, 32, 50, 50, 58, 48, 48, 32, 1076, 1086, 32, 48, 50, 58, 48, 48>>,
  \* "с 10:00 до 15:00"
    t10_15 |->
      <<1089, 32, 49, 48, 58, 48, 48, 32, 1076, 1086, 32, 49, 53, 58, 48, 48>>,
  \* "с 25:70 по 26:00"
    t25_70 |->
      <<1089, 32, 50, 53, 58, 55, 48, 32, 1087, 1086, 32, 50, 54, 58, 48, 48>>,
  \* "с 1 ноября 2025 по 5 ноября 2025"
    range_nov |->
      <<1089, 32, 49, 32, 1085, 1086, 1103, 1073, 1088, 1103, 32, 50, 48, 50, 53, 32, 1087,
        1086, 32, 53, 32, 1085, 1086, 1103, 1073, 1088, 1103, 32, 50, 48, 50, 53>>,
  \* "с 28 февраля 2025 по 3 марта 2025"
    range_feb_mar |->
      <<1089, 32, 50, 56, 32, 1092, 1077, 1074, 1088, 1072, 1083, 1103, 32, 50, 48, 50, 53, 32,
        1087, 1086, 32, 51, 32, 1084, 1072, 1088, 1090, 1072, 32, 50, 48, 50, 53>>,
  \* "лайков прирост"
    laykov_prirost |->
      <<1083, 1072, 1081, 1082, 1086, 1074, 32, 1087, 1088, 1080, 1088, 1086, 1089, 1090>>,
  \* "сумму"
    summu |->
      <<1089, 1091, 1084, 1084, 1091>>,
  \* "в декабре 2024 года"
    v_dekabre_goda |->
      <<1074, 32, 1076, 1077, 1082, 1072, 1073, 1088, 1077, 32, 50, 48, 50, 52, 32, 1075, 1086,
        1076, 1072>>,
  \* "В  МАЕ\t2023 ГОДА"
    v_mae_goda_upper |->
      <<1042, 32, 32, 1052, 1040, 1045, 9, 50, 48, 50, 51, 32, 1043, 1054, 1044, 1040>>,
  \* "в январе 2025"
    v_yanvare |->
      <<1074, 32, 1103, 1085, 1074, 1072, 1088, 1077, 32, 50, 48, 50, 53>>,
  \* "  "
    blank |->
      <<32, 32>> ]

\* values of the sql field of the LLM's JSON answer
LLM_SQL ==
  \* "SELECT COUNT(*) FROM videos WHERE views_count > 10"
  [ count |->
      <<83, 69, 76, 69, 67, 84, 32, 67, 79, 85, 78, 84, 40, 42, 41, 32, 70, 82, 79, 77, 32,
        118, 105, 100, 101, 111, 115, 32, 87, 72, 69, 82, 69, 32, 118, 105, 101, 119, 115, 95,
        99, 111, 117, 110, 116, 32, 62, 32, 49, 48>>,
  \* " select sum(views_count) from videos\n"
    lower |->
      <<32, 115, 101, 108, 101, 99, 116, 32, 115, 117, 109, 40, 118, 105, 101, 119, 115, 95,
        99, 111, 117, 110, 116, 41, 32, 102, 114, 111, 109, 32, 118, 105, 100, 101, 111, 115, 10>>,
  \* "SELECT * FROM users"
    star |->
      <<83, 69, 76, 69, 67, 84, 32, 42, 32, 70, 82, 79, 77, 32, 117, 115, 101, 114, 115>>,
  \* "DROP TABLE videos"
    drop |->
      <<68, 82, 79, 80, 32, 84, 65, 66, 76, 69, 32, 118, 105, 100, 101, 111, 115>>,
  \* "WITH t AS (SELECT 1) SELECT COUNT(*) FROM t"
    with |->
      <<87, 73, 84, 72, 32, 116, 32, 65, 83, 32, 40, 83, 69, 76, 69, 67, 84, 32, 49, 41, 32,
        83, 69, 76, 69, 67, 84, 32, 67, 79, 85, 78, 84, 40, 42, 41, 32, 70, 82, 79, 77, 32, 116>>,
  \* "   "
    blank |->
      <<32, 32, 32>> ]
\* ---- END input fragments

\* the fragments of fs that are not empty, joined by single spaces
RECURSIVE Join(_)
Join(fs) ==
  IF fs = <<>> THEN <<>>
  ELSE IF Len(fs) = 1 THEN fs[1]
  ELSE IF fs[1] = <<>> THEN Join(Tail(fs))
  ELSE IF Join(Tail(fs)) = <<>> THEN fs[1]
  ELSE fs[1] \o <<32>> \o Join(Tail(fs))

\* the most keyword fragments of one free text
MaxFrags == 3

\* the vocabulary of the free texts
Vocab ==
  << FRAG.skolko, FRAG.summarnoe, FRAG.otricatelnym, FRAG.zamerov, FRAG.raznyh, FRAG.kreatorov,
     FRAG.bolshe_500, FRAG.bolshe_100_tab, FRAG.prosmotrov, FRAG.v_iyune_goda, FRAG.v_iyune,
     FRAG.skolko_vsego_video, FRAG.vyrosli_28, FRAG.y2025, FRAG.delta_views_count,
     FRAG.bolshe_1000 >>

\* the elements of a set of indices, in increasing order
RECURSIVE Ascending(_)
Ascending(S) == IF S = {} THEN <<>> ELSE <<MinOf(S)>> \o Ascending(S \ {MinOf(S)})

\* free texts: at most MaxFrags fragments of the vocabulary, in its order
FreeTexts ==
  {Join([k \in 1..Cardinality(S) |-> Vocab[Ascending(S)[k]]]) :
     S \in {T \in SUBSET (1..Len(Vocab)) : Cardinality(T) <= MaxFrags}}

\* texts around a known question
ExactTexts ==
  {Join(<<a, q, b>>) :
     a \in {<<>>, FRAG.hello},
     q \in {FRAG.q1, FRAG.q2, FRAG.q3, FRAG.q4, FRAG.q1_lower, FRAG.q3_upper, FRAG.q1_no_mark},
     b \in {<<>>, FRAG.id32, FRAG.v_iyune_goda, FRAG.otricatelnym \o <<32>> \o FRAG.zamerov}}

\* texts about one creator: a well-formed id with every combination of the
\* other parts, and the other spellings of the id with some of them
CreatorTexts ==
  {Join(<<FRAG.skolko, FRAG.id32, b, c, d, e>>) :
     b \in {<<>>, FRAG.cal_noyabrya, FRAG.cal_mart},
     c \in {<<>>, FRAG.d28, FRAG.d31_feb, FRAG.d31_dec_9999},
     d \in {<<>>, FRAG.t22_02, FRAG.t10_15, FRAG.t25_70, FRAG.range_nov, FRAG.range_feb_mar},
     e \in {<<>>, FRAG.prosmotrov, FRAG.bolshe_500, FRAG.bolshe_100_tab,
            FRAG.laykov_prirost}}
  \cup
  {Join(<<FRAG.skolko, a, c, d, e>>) :
     a \in {FRAG.id32_upper, FRAG.id31, FRAG.id33},
     c \in {<<>>, FRAG.d28},
     d \in {<<>>, FRAG.t22_02, FRAG.range_nov},
     e \in {<<>>, FRAG.bolshe_500, FRAG.prosmotrov}}

\* texts on which several rule matchers could act: any of a negative-delta
\* phrase, a month and year, a distinct-creators phrase and a creator id
OverlapTexts ==
  {Join(<<FRAG.skolko, n, m, d, c>>) :
     n \in {<<>>, Join(<<FRAG.otricatelnym, FRAG.zamerov, FRAG.prosmotrov>>)},
     m \in {<<>>, FRAG.v_iyune_goda},
     d \in {<<>>, Join(<<FRAG.raznyh, FRAG.kreatorov, FRAG.bolshe_500>>),
            Join(<<FRAG.raznyh, FRAG.kreatorov, FRAG.bolshe_100_tab>>)},
     c \in {<<>>, FRAG.id32}}

\* texts that name a month and a year, with and without the words that
\* choose between the sum and the count
MonthTexts ==
  {Join(<<w, m>>) :
     w \in {<<>>, FRAG.skolko, FRAG.summarnoe, Join(<<FRAG.skolko, FRAG.summu>>)},
     m \in {FRAG.v_dekabre_goda, FRAG.v_mae_goda_upper, FRAG.v_yanvare}}

Texts ==
  FreeTexts \cup ExactTexts \cup CreatorTexts \cup OverlapTexts \cup MonthTexts
    \cup {FRAG.blank}

\* the LLM's behaviours in one completion call
LLMResponses ==
  {[kind |-> k, sql |-> <<>>] : k \in LLMKinds \ {"sql_string"}}
  \cup {[kind |-> "sql_string", sql |-> t] :
          t \in {<<>>, LLM_SQL.count, LLM_SQL.lower, LLM_SQL.star, LLM_SQL.drop,
                 LLM_SQL.with, LLM_SQL.blank}}

\* no completion call was made
NoCall == [kind |-> "no_call", sql |-> <<>>]

Cell(t, v) == [t |-> t, v |-> v]

\* the first cell of the fetched row
Cells ==
  {Cell("int", n) : n \in {0, 42}}
  \cup {Cell("float", n) : n \in {-27, 5}}
  \cup {Cell(t, 0) : t \in {"nan", "inf", "decimal", "str", "null"}}

DB(connect, execute, row, commit) ==
  [connect |-> connect, execute |-> execute, row |-> row, commit |-> commit]

\* the database's behaviours in one round trip
DBBehaviours ==
  {DB(c, "ok", NoRow, "ok") : c \in {"error", "retry_error"}}
  \cup {DB("ok", "raise", NoRow, "ok")}
  \cup {DB("ok", "ok", r, "ok") : r \in Cells \cup {NoRow}}
  \cup {DB("ok", "ok", Cell("int", 42), "raise"), DB("retry_ok", "ok", Cell("int", 42), "ok")}

NoDB == DB("unused", "ok", NoRow, "ok")

\* ------------------------------------------------------------------------
\* The bot: one text message through handle_text_message
\* ------------------------------------------------------------------------

VARIABLES
  client,      \* the processor's LLM client: "ok", or "none" (self.client is None)
  message,     \* message.text
  pc,          \* the handler's position: idle, generate, execute, reply, done
  user_query,  \* message.text.strip()
  llm,         \* the behaviour of the completion call of this request
  gen,         \* what generate_sql_query gave
  db,          \* the behaviour of the database in this request
  ops,         \* the database calls made, in order
  executed,    \* the SQL strings handed to cursor.execute
  result,      \* what process_query gave
  typing,      \* number of "typing" chat actions sent
  replies,     \* the replies sent, in order
  date_arg,    \* a call of _build_datetime_range: the date of date_str
  time_arg,    \* ... its time_range (h1, m1, h2, m2)
  range_pc,    \* ... "idle", "called" or "returned"
  range_out,   \* ... what it gave
  first,       \* what the first request gave, once the same text is sent again
  metric_call, \* a call of _detect_metric_column: text, default, position, column
  import_run   \* a run of import_data: the file, the database, position, outcome

bot_vars ==
  <<client, message, pc, user_query, llm, gen, db, ops, executed, result, typing, replies>>

range_vars == <<date_arg, time_arg, range_pc, range_out>>

rerun_vars == <<first>>

tool_vars == <<metric_call, import_run>>

vars == <<bot_vars, range_vars, rerun_vars, tool_vars>>

NoGen == Staged(Fallthrough, <<>>, 0)

NoDate == [year |-> 1, month |-> 1, day |-> 1]

NoTime == [ok |-> FALSE, h1 |-> 0, m1 |-> 0, h2 |-> 0, m2 |-> 0]

\* the text has not been sent a second time
NoFirst == [done |-> FALSE, gen |-> NoGen, db |-> NoDB, result |-> NoneResult]

\* no call of _detect_metric_column is in progress
NoMetric == [text |-> <<>>, default |-> <<>>, pc |-> "idle", column |-> <<>>]

\* no run of import_data is in progress
NoImport ==
  [file |-> [kind |-> "unreadable", videos |-> <<>>],
   db |-> [connect |-> "unused", commit |-> "ok", fail_at |-> 0, fail_kind |-> "exception"],
   pc |-> "idle",
   out |-> ImportOutcome(<<>>, 0, <<>>)]

\* neither _detect_metric_column nor import_data is running
ToolsIdle ==
  /\ metric_call = NoMetric
  /\ import_run = NoImport

\* no request is in progress
BotIdle ==
  /\ message = <<>>
  /\ pc = "idle"
  /\ user_query = <<>>
  /\ llm = NoCall
  /\ gen = NoGen
  /\ db = NoDB
  /\ ops = <<>>
  /\ executed = <<>>
  /\ result = NoneResult
  /\ typing = 0
  /\ replies = <<>>

\* no call of _build_datetime_range is in progress
RangeIdle ==
  /\ date_arg = NoDate
  /\ time_arg = NoTime
  /\ range_pc = "idle"
  /\ range_out = RangeRaised

Init ==
  /\ client \in {"ok", "none"}
  /\ message \in Texts
  /\ pc = "idle"
  /\ user_query = <<>>
  /\ llm = NoCall
  /\ gen = NoGen
  /\ db = NoDB
  /\ ops = <<>>
  /\ executed = <<>>
  /\ result = NoneResult
  /\ typing = 0
  /\ replies = <<>>
  /\ RangeIdle
  /\ first = NoFirst
  /\ ToolsIdle

\* handle_text_message up to the call of process_query: an empty text is
\* answered at once
Receive ==
  /\ pc = "idle"
  /\ user_query' = strip(message)
  /\ IF user_query' = <<>>
     THEN /\ replies' = Append(replies, MSG.enter_question)
          /\ typing' = typing
          /\ pc' = "done"
     ELSE /\ replies' = replies
          /\ typing' = typing + 1
          /\ pc' = "generate"
  /\ UNCHANGED <<client, message, llm, gen, db, ops, executed, result>>
  /\ UNCHANGED range_vars
  /\ UNCHANGED rerun_vars
  /\ UNCHANGED tool_vars

\* the completion calls a request can meet: none when the request ends
\* before LLM_CALL or the client is missing
LLMChoices(early) ==
  IF early.kind # "fallthrough" \/ client = "none" THEN {NoCall} ELSE LLMResponses

\* generate_sql_query whose exact lookup and rules gave early
Generate(early) ==
  \E r \in LLMChoices(early) :
    /\ llm' = r
    /\ gen' = OrElse(early, llm_stages(user_query, client, r))

\* process_query, first half: generate_sql_query; no SQL ends the request
\* with None, an exception leaves process_query
GenerateSql ==
  /\ pc = "generate"
  /\ Generate(rule_stages(user_query))
  /\ result' = IF gen'.kind = "raise" THEN RaisedResult ELSE NoneResult
  /\ pc' = IF gen'.kind = "sql" /\ gen'.sql # <<>> THEN "execute" ELSE "reply"
  /\ UNCHANGED <<client, message, user_query, db, ops, executed, typing, replies>>
  /\ UNCHANGED range_vars
  /\ UNCHANGED rerun_vars
  /\ UNCHANGED tool_vars

\* process_query, second half: execute_query_and_get_result with a
\* database that behaves as d
Execute(d, run) ==
  /\ db' = d
  /\ ops' = run.ops
  /\ executed' = run.executed
  /\ result' = run.result

\* the behaviours of the database a request can meet: while nothing changes
\* the database, the SQL the first request executed meets the behaviour it
\* met then
Databases ==
  IF first.done /\ first.gen.kind = "sql" /\ first.gen.sql = gen.sql
  THEN {first.db}
  ELSE DBBehaviours

ExecuteQuery ==
  /\ pc = "execute"
  /\ \E d \in Databases : Execute(d, execute_query_and_get_result(gen.sql, d))
  /\ pc' = "reply"
  /\ UNCHANGED <<client, message, user_query, llm, gen, typing, replies>>
  /\ UNCHANGED range_vars
  /\ UNCHANGED rerun_vars
  /\ UNCHANGED tool_vars

\* the variant of the reply that tests  if result:  instead of
\* if result is not None:
reply_text_truthy(res) ==
  IF res.kind = "raise" THEN MSG.error
  ELSE IF res.kind = "int" /\ res.value # 0 THEN str(res.value)
  ELSE MSG.rephrase

\* the text handle_text_message replies with: the number, the request to
\* rephrase, or the error message of the except branch
reply_text(res) ==
  IF res.kind = "raise" THEN MSG.error
  ELSE IF res.kind = "int" THEN str(res.value)
  ELSE MSG.rephrase

\* handle_text_message after process_query
Reply ==
  /\ pc = "reply"
  /\ replies' = Append(replies, reply_text(result))
  /\ pc' = "done"
  /\ UNCHANGED <<client, message, user_query, llm, gen, db, ops, executed, result, typing>>
  /\ UNCHANGED range_vars
  /\ UNCHANGED rerun_vars
  /\ UNCHANGED tool_vars

Next == Receive \/ GenerateSql \/ ExecuteQuery \/ Reply

Spec == Init /\ [][Next]_vars

\* ------------------------------------------------------------------------
\* _build_datetime_range on its own: one call for every date and time range
\* ------------------------------------------------------------------------

\* the dates _parse_single_date can hand over: calendar dates and days a
\* month does not have, in leap and common years and in the last year
Dates ==
  {[year |-> y, month |-> m, day |-> d] :
     y \in {2023, 2024, 2025, 9999}, m \in 1..12, d \in {1, 28, 29, 30, 31}}

\* the time ranges, ends before, at and after the start among them
TimeRanges ==
  {[ok |-> TRUE, h1 |-> h1, m1 |-> m1, h2 |-> h2, m2 |-> m2] :
     h1 \in {0, 2, 22, 23}, m1 \in {0, 30, 59}, h2 \in {0, 2, 22, 23}, m2 \in {0, 30, 59}}

\* f"{year}-{month}-{int(day):02d}" of _parse_single_date
date_str_of(date) ==
  zfill(str(date.year), 4) \o <<45>> \o zfill(str(date.month), 2) \o <<45>>
  \o zfill(str(date.day), 2)

RangeInit ==
  /\ client = "none"
  /\ BotIdle
  /\ date_arg \in Dates
  /\ time_arg \in TimeRanges
  /\ range_pc = "called"
  /\ range_out = RangeRaised
  /\ first = NoFirst
  /\ ToolsIdle

\* the call returns or raises
BuildRange ==
  /\ range_pc = "called"
  /\ range_out' = _build_datetime_range(date_str_of(date_arg), time_arg)
  /\ range_pc' = "returned"
  /\ UNCHANGED <<date_arg, time_arg>>
  /\ UNCHANGED bot_vars
  /\ UNCHANGED rerun_vars
  /\ UNCHANGED tool_vars

SpecRange == RangeInit /\ [][BuildRange]_vars

\* ------------------------------------------------------------------------
\* The same text sent twice, the database unchanged in between
\* ------------------------------------------------------------------------

\* texts that end in each stage: the exact lookup, a rule, the creator
\* branch, the LLM call or the fallback
RerunTexts ==
  { FRAG.q1, FRAG.hello, FRAG.y2025, FRAG.vyrosli_28,
    Join(<<FRAG.skolko, FRAG.v_iyune_goda>>),
    Join(<<FRAG.raznyh, FRAG.kreatorov, FRAG.bolshe_500>>),
    Join(<<FRAG.skolko, FRAG.id32, FRAG.d28, FRAG.t22_02, FRAG.prosmotrov>>),
    Join(<<FRAG.summarnoe, FRAG.prosmotrov>>) }

InitTwice ==
  /\ client \in {"ok", "none"}
  /\ message \in RerunTexts
  /\ pc = "idle"
  /\ user_query = <<>>
  /\ llm = NoCall
  /\ gen = NoGen
  /\ db = NoDB
  /\ ops = <<>>
  /\ executed = <<>>
  /\ result = NoneResult
  /\ typing = 0
  /\ replies = <<>>
  /\ RangeIdle
  /\ first = NoFirst
  /\ ToolsIdle

\* the dispatcher hands the same text to handle_text_message once more
Again ==
  /\ pc = "done"
  /\ ~first.done
  /\ first' = [done |-> TRUE, gen |-> gen, db |-> db, result |-> result]
  /\ pc' = "idle"
  /\ user_query' = <<>>
  /\ llm' = NoCall
  /\ gen' = NoGen
  /\ db' = NoDB
  /\ ops' = <<>>
  /\ executed' = <<>>
  /\ result' = NoneResult
  /\ UNCHANGED <<client, message, typing, replies>>
  /\ UNCHANGED range_vars
  /\ UNCHANGED tool_vars

NextTwice == Receive \/ GenerateSql \/ ExecuteQuery \/ Reply \/ Again

SpecTwice == InitTwice /\ [][NextTwice]_vars

\* ------------------------------------------------------------------------
\* _detect_metric_column on its own: one call for every text and default
\* ------------------------------------------------------------------------

\* words with the stems of METRIC_KEYWORDS, and one without
MetricWords ==
  << \* "сколько"
     <<1089, 1082, 1086, 1083, 1100, 1082, 1086>>,
     \* "просмотров"
     <<1087, 1088, 1086, 1089, 1084, 1086, 1090, 1088, 1086, 1074>>,
     \* "лайков"
     <<1083, 1072, 1081, 1082, 1086, 1074>>,
     \* "комментариев"
     <<1082, 1086, 1084, 1084, 1077, 1085, 1090, 1072, 1088, 1080, 1077, 1074>>,
     \* "жалоб"
     <<1078, 1072, 1083, 1086, 1073>>,
     \* "репортов"
     <<1088, 1077, 1087, 1086, 1088, 1090, 1086, 1074>> >>

\* the elements of a set of indices, in decreasing order
RECURSIVE Descending(_)
Descending(S) == IF S = {} THEN <<>> ELSE <<MaxOf(S)>> \o Descending(S \ {MaxOf(S)})

\* texts for _detect_metric_column: any of the words, in either
\* order, a question with one stem, and a text in capitals
MetricTexts ==
  {Join([k \in 1..Cardinality(S) |-> MetricWords[Ascending(S)[k]]]) :
     S \in SUBSET (1..Len(MetricWords))}
  \cup
  {Join([k \in 1..Cardinality(S) |-> MetricWords[Descending(S)[k]]]) :
     S \in SUBSET (1..Len(MetricWords))}
  \cup
  \* "сколько лайков получили", "ЛАЙКОВ"
  { <<1089, 1082, 1086, 1083, 1100, 1082, 1086, 32, 1083, 1072, 1081, 1082, 1086, 1074, 32, 1087, 1086, 1083, 1091, 1095, 1080, 1083, 1080>>, <<1051, 1040, 1049, 1050, 1054, 1042>> }

\* the defaults a caller passes: the parameter's default value and another
\* column
MetricDefaults ==
  {METRIC_KEYWORDS[1].column,
    \* "views_count"
    <<118, 105, 101, 119, 115, 95, 99, 111, 117, 110, 116>>}

MetricInit ==
  /\ client = "none"
  /\ BotIdle
  /\ RangeIdle
  /\ first = NoFirst
  /\ import_run = NoImport
  /\ \E text \in MetricTexts, default \in MetricDefaults :
       metric_call = [text |-> text, default |-> default, pc |-> "called", column |-> <<>>]

\* the call returns
DetectMetric ==
  /\ metric_call.pc = "called"
  /\ metric_call' =
       [metric_call EXCEPT !.pc = "returned",
                           !.column = _detect_metric_column(metric_call.text,
                                                            metric_call.default)]
  /\ UNCHANGED <<bot_vars, range_vars, rerun_vars, import_run>>

SpecMetric == MetricInit /\ [][DetectMetric]_vars

\* ------------------------------------------------------------------------
\* import_data on its own: one run for every file and database behaviour
\* ------------------------------------------------------------------------

MaxVideos == 2

MaxSnapshots == 2

\* the lists of at most n videos, each with its number of snapshots
RECURSIVE VideoLists(_)
VideoLists(n) ==
  IF n = 0 THEN {<<>>}
  ELSE VideoLists(n - 1)
       \cup {Append(videos, k) : videos \in {l \in VideoLists(n - 1) : Len(l) = n - 1},
                                 k \in 0..MaxSnapshots}

\* the files: one that cannot be read, and the files with each list of
\* videos, the empty list among them
ImportFiles ==
  {[kind |-> "unreadable", videos |-> <<>>]}
  \cup {[kind |-> "json", videos |-> videos] : videos \in VideoLists(MaxVideos)}

\* the database's behaviours in a run: the connection, the execute that
\* fails (0: none) and how, the commit
ImportDBs ==
  {[connect |-> c, commit |-> m, fail_at |-> n, fail_kind |-> k] :
     c \in {"ok", "error", "retry_ok", "retry_error"},
     m \in {"ok", "raise"},
     n \in 0..(MaxVideos * (MaxSnapshots + 1)),
     k \in {"exception", "interrupt"}}

ImportInit ==
  /\ client = "none"
  /\ BotIdle
  /\ RangeIdle
  /\ first = NoFirst
  /\ metric_call = NoMetric
  /\ \E file \in ImportFiles, d \in ImportDBs :
       import_run = [file |-> file, db |-> d, pc |-> "called",
                     out |-> ImportOutcome(<<>>, 0, <<>>)]

\* the run ends
ImportData ==
  /\ import_run.pc = "called"
  /\ import_run' = [import_run EXCEPT !.pc = "returned",
                                      !.out = import_data(import_run.file, import_run.db)]
  /\ UNCHANGED <<bot_vars, range_vars, rerun_vars, metric_call>>

SpecImport == ImportInit /\ [][ImportData]_vars

\* ------------------------------------------------------------------------
\* Properties
\* ------------------------------------------------------------------------

\* generate_sql_query of this request has returned or raised
Generated == gen.stages # <<>>

\* execute_query_and_get_result of this request has returned
Executed == db # NoDB

\* the request is answered
Answered == pc = "done" /\ Generated

Last(seq) == seq[Len(seq)]

\* sql starts, case-insensitively, with SELECT
IsSelect(sql) == Len(sql) >= 6 /\ lower(SubSeq(sql, 1, 6)) = <<115, 101, 108, 101, 99, 116>>

\* an LLM contract violation: a response that is no JSON, has no usable
\* "sql", or whose SQL does not start with SELECT
ContractViolation(r) ==
  \/ r.kind \in {"not_json", "sql_missing", "sql_not_string"}
  \/ r.kind = "sql_string" /\ ~IsSelect(strip(r.sql))

\* the LLM stage fails: the call raises, the response cannot be decoded, or
\* it violates the contract
LLMFailed(r) ==
  \/ r.kind \in {"raises", "no_choices", "content_none", "json_not_object"}
  \/ ContractViolation(r)

\* two outcomes of generate_sql_query are the same: both SQL and the same
\* string, or both no SQL, or both an exception
SameOutcome(a, b) == a.kind = b.kind /\ a.sql = b.sql

\* C1: after an LLM response that is not valid JSON, has no usable sql or
\* carries SQL that does not start with SELECT, generate_sql_query gives what
\* _get_fallback_sql gives for the text: the fallback's SQL when a fallback
\* rule matches, no SQL only when none does.
C1_ContractViolationFallsBack ==
  (Generated /\ ContractViolation(llm))
    => SameOutcome(gen, _get_fallback_sql(user_query))

\* C2: whatever the text, the LLM and the database do, generate_sql_query
\* and process_query raise no exception: they give SQL or None, an integer
\* or None.
C2_NeverRaises == gen.kind # "raise" /\ result.kind # "raise"

\* the known questions in lower case
KnownLower == [k \in 1..Len(test_queries) |-> lower(test_queries[k].q)]

\* the known questions that occur, case-insensitively, in a text
KnownIn(text) == {k \in 1..Len(test_queries) : In(KnownLower[k], text)}

\* C3: for a text that contains a known question of the exact-lookup table,
\* case-insensitively, generate_sql_query returns exactly the precomputed
\* SQL of that question (the first such question in table order), and only
\* the exact lookup ran: no rule matcher, no parser, no LLM call, no fallback.
C3_ExactLookupShortCircuits ==
  Generated =>
    LET known == KnownIn(lower(user_query))
    IN known # {}
         => /\ gen.kind = "sql"
            /\ \E k \in known : gen.sql = test_queries[k].sql /\ \A j \in known : k <= j
            /\ gen.stages = <<"EXACT_LOOKUP">>
            /\ gen.llm_calls = 0
            /\ llm = NoCall

\* C3's case: a text in another letter case than the known question it
\* contains, with more text around it, is answered by the exact lookup
C3_Witness ==
  /\ Generated
  /\ gen.stages = <<"EXACT_LOOKUP">>
  /\ \E k \in KnownIn(lower(user_query)) :
       /\ ~In(test_queries[k].q, user_query)
       /\ Len(user_query) > Len(test_queries[k].q)
       /\ gen.sql = test_queries[k].sql

\* C4: the stages run in the order EXACT_LOOKUP, RULES, LLM_CALL,
\* RULE_FALLBACK and the first that yields SQL ends the request; the LLM is
\* called only after lookup and rules fell through; and RULE_FALLBACK runs
\* whenever the client is missing or the LLM stage fails, so that a text a
\* fallback rule matches gets SQL whatever the LLM does.
C4_FallbackRunsWhenLLMFails ==
  Generated =>
    /\ gen.stages \in {<<"EXACT_LOOKUP">>,
                       <<"EXACT_LOOKUP", "RULES">>,
                       <<"EXACT_LOOKUP", "RULES", "LLM_CALL">>,
                       <<"EXACT_LOOKUP", "RULES", "RULE_FALLBACK">>,
                       <<"EXACT_LOOKUP", "RULES", "LLM_CALL", "RULE_FALLBACK">>}
    /\ llm # NoCall => (Len(gen.stages) >= 3 /\ gen.stages[3] = "LLM_CALL")
    /\ (Len(gen.stages) >= 3 /\ (client = "none" \/ LLMFailed(llm)))
         => /\ Last(gen.stages) = "RULE_FALLBACK"
            /\ _get_fallback_sql(user_query).kind = "sql" => gen.kind = "sql"

\* C5: a transport failure of the LLM and a contract violation are treated
\* alike: for the same text, a response that violates the contract leads
\* generate_sql_query to the outcome a raising completion call leads to.
C5_ViolationLikeTransportFailure ==
  (Generated /\ ContractViolation(llm))
    => SameOutcome(gen, generate_sql_query(user_query, client,
                                           [kind |-> "raises", sql |-> <<>>]))

\* sql begins with SELECT COUNT, SELECT SUM or SELECT COALESCE(SUM(
IsAggregate(sql) ==
  \/ startswith(sql, <<83, 69, 76, 69, 67, 84, 32, 67, 79, 85, 78, 84>>)
  \/ startswith(sql, <<83, 69, 76, 69, 67, 84, 32, 83, 85, 77>>)
  \/ startswith(sql, <<83, 69, 76, 69, 67, 84, 32, 67, 79, 65, 76, 69, 83, 67, 69, 40,
                       83, 85, 77, 40>>)

\* a letter, a digit or an underscore
IsWordChar(c) == c \in 48..57 \/ c \in 65..90 \/ c \in 97..122 \/ c = 95

\* the word name stands at index i of sql
WordAt(sql, i, name) ==
  /\ MatchAt(sql, i, name)
  /\ i + Len(name) <= Len(sql) => ~IsWordChar(sql[i + Len(name)])

\* index i of sql holds " FROM " or " JOIN " before a table name: FROM is
\* no table clause inside EXTRACT(YEAR FROM ..) and EXTRACT(MONTH FROM ..)
TableClauseAt(sql, i) ==
  \/ MatchAt(upper(sql), i, <<32, 74, 79, 73, 78, 32>>)
  \/ /\ MatchAt(upper(sql), i, <<32, 70, 82, 79, 77, 32>>)
     /\ ~MatchAt(upper(sql), i - 5, <<40, 89, 69, 65, 82>>)
     /\ ~MatchAt(upper(sql), i - 6, <<40, 77, 79, 78, 84, 72>>)

\* every table sql names is videos or video_snapshots
OnlyKnownTables(sql) ==
  \A i \in 1..Len(sql) :
    TableClauseAt(sql, i)
      => \/ WordAt(sql, i + 6, <<118, 105, 100, 101, 111, 115>>)
         \/ WordAt(sql, i + 6, <<118, 105, 100, 101, 111, 95, 115, 110, 97, 112, 115,
                                 104, 111, 116, 115>>)

\* C6: every SQL string generate_sql_query returns, whichever stage made it,
\* is a single-value aggregate that begins with SELECT COUNT, SELECT SUM or
\* SELECT COALESCE(SUM( and names no table but videos and video_snapshots.
C6_OnlyAggregatesOverKnownTables ==
  (Generated /\ gen.kind = "sql") => (IsAggregate(gen.sql) /\ OnlyKnownTables(gen.sql))

\* C7: SQL from the LLM stage is returned only if it is the sql field of a
\* response that parsed as JSON, non-empty after trimming and starting,
\* case-insensitively, with SELECT; the request's SQL is then that trimmed
\* field and nothing else of the response.
C7_LLMSqlIsChecked ==
  (Generated /\ gen.kind = "sql" /\ Last(gen.stages) = "LLM_CALL")
    => /\ llm.kind = "sql_string"
       /\ gen.sql = strip(llm.sql)
       /\ gen.sql # <<>>
       /\ IsSelect(gen.sql)

\* C7's case: the LLM stage returned SQL written in lower case with white
\* space around it, trimmed
C7_Witness ==
  /\ Generated
  /\ gen.kind = "sql"
  /\ Last(gen.stages) = "LLM_CALL"
  /\ gen.sql # llm.sql
  /\ ~startswith(gen.sql, KW.SELECT)

\* connecting, executing and committing raised nothing
Clean(d) == d.connect \in {"ok", "retry_ok"} /\ d.execute = "ok" /\ d.commit = "ok"

\* n is the cell's number truncated towards zero
Truncated(cell, n) ==
  IF cell.t = "int" THEN n = cell.v
  ELSE IF cell.v >= 0 THEN 10 * n <= cell.v /\ cell.v < 10 * n + 10
  ELSE 10 * n >= cell.v /\ cell.v > 10 * n - 10

\* C8 as stated: execute_query_and_get_result returns int(value) whenever
\* the first column of the first row is an integer or a float, NaN and the
\* infinities among the floats, and None without raising when execution
\* raises, no row is returned or the value is not numeric.
C8_AnyFloatGivesInt ==
  Executed =>
    /\ result.kind # "raise"
    /\ (Clean(db) /\ db.row.t \in {"int", "float", "nan", "inf"}) => result.kind = "int"
    /\ (~Clean(db) \/ db.row = NoRow \/ db.row.t \in {"decimal", "str", "null"})
         => result = NoneResult

\* C8, amended: execute_query_and_get_result returns int(value), a float
\* truncated towards zero, when the first column of the first row is an
\* integer or a finite float and nothing raised; it returns None without
\* raising when connecting, executing or committing raises, when no row is
\* returned, when the value is no int or float (NULL, Decimal, str), and
\* when it is a NaN or an infinite float.
C8_FiniteNumberGivesInt ==
  Executed =>
    /\ result.kind # "raise"
    /\ (Clean(db) /\ db.row.t \in {"int", "float"})
         => (result.kind = "int" /\ Truncated(db.row, result.value))
    /\ (~Clean(db) \/ db.row = NoRow \/ db.row.t \notin {"int", "float"})
         => result = NoneResult

\* C8's case: the float -2.7 came back and the result is -2
C8_Witness ==
  /\ Executed
  /\ Clean(db)
  /\ db.row = Cell("float", -27)
  /\ result = IntResult(-2)

\* C9: zero is no failure.  When the executed SQL yields 0, process_query
\* returns the integer 0 and the bot replies "0"; None and the request to
\* rephrase occur only when SQL generation or SQL execution failed.
C9_ZeroIsNotFailure ==
  Answered =>
    /\ (Executed /\ Clean(db) /\ db.row = Cell("int", 0)) => result = IntResult(0)
    /\ result = IntResult(0) => Last(replies) = <<48>>
    /\ Last(replies) = MSG.rephrase <=> result.kind = "none"
    /\ result.kind = "none"
         => \/ gen.kind # "sql"
            \/ ~Clean(db)
            \/ db.row = NoRow
            \/ db.row.t \notin {"int", "float"}

\* C9's case: the SQL was executed, the value 0 came back and the reply
\* is "0"
C9_Witness ==
  /\ Answered
  /\ Executed
  /\ db.row = Cell("int", 0)
  /\ result = IntResult(0)
  /\ Last(replies) = <<48>>

\* days from 1970-01-01 to a calendar date
DayNumber(date) ==
  LET y == IF date.month <= 2 THEN date.year - 1 ELSE date.year
      mp == IF date.month > 2 THEN date.month - 3 ELSE date.month + 9
      yoe == y % 400
  IN (y \div 400) * 146097 + yoe * 365 + yoe \div 4 - yoe \div 100
     + (153 * mp + 2) \div 5 + date.day - 1 - 719468

\* the year of the era, the day of the year and the month index of day z
\* of an era
EraDay(doe) ==
  LET yoe == (doe - doe \div 1460 + doe \div 36524 - doe \div 146096) \div 365
      doy == doe - (365 * yoe + yoe \div 4 - yoe \div 100)
  IN [yoe |-> yoe, doy |-> doy, mp |-> (5 * doy + 2) \div 153]

\* the calendar date of a day number
CivilFromDays(z) ==
  LET e == EraDay((z + 719468) % 146097)
      m == IF e.mp < 10 THEN e.mp + 3 ELSE e.mp - 9
  IN [year |-> e.yoe + ((z + 719468) \div 146097) * 400 + (IF m <= 2 THEN 1 ELSE 0),
      month |-> m,
      day |-> e.doy - (153 * e.mp + 2) \div 5 + 1]

\* the calendar date of a datetime
DateOf(dt) == [year |-> dt.year, month |-> dt.month, day |-> dt.day]

\* seconds from midnight to the time of a datetime
SecondOfDay(dt) == dt.hour * 3600 + dt.minute * 60 + dt.second

\* datetime a is strictly later than datetime b
Later(a, b) ==
  \/ DayNumber(DateOf(a)) > DayNumber(DateOf(b))
  \/ DayNumber(DateOf(a)) = DayNumber(DateOf(b)) /\ SecondOfDay(a) > SecondOfDay(b)

\* the end of the time range is not after its start
EndNotAfterStart(t) == t.h2 * 60 + t.m2 <= t.h1 * 60 + t.m1

\* C10: when _build_datetime_range(date, (h1, m1, h2, m2)) returns, start
\* is the date at h1:m1:00 and end is h2:m2:00 on the date, or on the next
\* calendar day when end <= start; so end is strictly later than start, and
\* 2025-11-28 with (22, 0, 2, 0) gives an end on 2025-11-29.
C10_EndAfterStart ==
  (range_pc = "returned" /\ ~range_out.raises) =>
    /\ range_out.start_dt =
         [year |-> date_arg.year, month |-> date_arg.month, day |-> date_arg.day,
          hour |-> time_arg.h1, minute |-> time_arg.m1, second |-> 0]
    /\ range_out.end_dt.hour = time_arg.h2
    /\ range_out.end_dt.minute = time_arg.m2
    /\ range_out.end_dt.second = 0
    /\ DateOf(range_out.end_dt) =
         CivilFromDays(DayNumber(date_arg) + (IF EndNotAfterStart(time_arg) THEN 1 ELSE 0))
    /\ Later(range_out.end_dt, range_out.start_dt)
    /\ Len(range_out.start) = 25 /\ Len(range_out.end) = 25
    /\ SubSeq(range_out.start, 1, 10) = date_str_of(date_arg)
    /\ SubSeq(range_out.end, 1, 10) = date_str_of(DateOf(range_out.end_dt))

\* C10's case: 2025-11-28 with (22, 0, 2, 0) gives an end on 2025-11-29
C10_Witness ==
  /\ range_pc = "returned"
  /\ ~range_out.raises
  /\ date_arg = [year |-> 2025, month |-> 11, day |-> 28]
  /\ time_arg = [ok |-> TRUE, h1 |-> 22, m1 |-> 0, h2 |-> 2, m2 |-> 0]
  /\ SubSeq(range_out.end, 1, 10) = <<50, 48, 50, 53, 45, 49, 49, 45, 50, 57>>

\* C11: the same text through the orchestrator twice, nothing changing the
\* database in between, gives the same SQL and the same numeric result both
\* times.
C11_SameTextSameAnswer ==
  (first.done /\ pc = "done")
    => /\ gen.kind = first.gen.kind
       /\ gen.sql = first.gen.sql
       /\ result = first.result

\* s is a decimal integer: an optional minus sign and digits, no leading zero
IsDecimal(s) ==
  LET digits == IF s # <<>> /\ s[1] = 45 THEN Tail(s) ELSE s
  IN /\ digits # <<>>
     /\ AllDigits(digits)
     /\ Len(digits) > 1 => digits[1] # 48

\* the integer a decimal integer denotes
DecimalValue(s) == IF s[1] = 45 THEN -DigitsValue(Tail(s)) ELSE DigitsValue(s)

\* C12: a non-empty text gets exactly one reply.  It is the decimal integer
\* when process_query returned an integer, and otherwise one fixed message:
\* the request to rephrase after None, the error message after an
\* exception.  Never a number and a message, never a malformed number, and
\* nothing is sent before process_query is through.
C12_ExactlyOneReply ==
  user_query # <<>> =>
    /\ pc # "done" => replies = <<>>
    /\ pc = "done" =>
         /\ Len(replies) = 1
         /\ result.kind = "int"
              => (IsDecimal(replies[1]) /\ DecimalValue(replies[1]) = result.value)
         /\ result.kind = "none" => replies[1] = MSG.rephrase
         /\ result.kind = "raise" => replies[1] = MSG.error
         /\ IsDecimal(replies[1]) => result.kind = "int"

\* C12's case: process_query returned -2 and the one reply is "-2"
C12_Witness ==
  /\ pc = "done"
  /\ result = IntResult(-2)
  /\ replies = << <<45, 50>> >>

\* the primary rule matchers in the order of the code: 1 negative delta,
\* 2 month/year aggregate, 3 distinct creators over a threshold, 4 creator
\* scoped; the guard of each on a lower-case text
GuardHolds(k, query_lower) ==
  IF k = 1
  THEN /\ In(KW.otricatelnym, query_lower) \/ In(KW.otricatelnoe, query_lower)
       /\ \/ In(KW.zamer, query_lower)
          \/ In(KW.snapshot, query_lower)
          \/ In(KW.statistik, query_lower)
       /\ In(KW.delta_views_count, query_lower) \/ In(KW.prosmotrov, query_lower)
  ELSE IF k = 2
  THEN /\ re_search(month_year_pattern, query_lower).ok
       /\ \/ In(KW.summarnoe, query_lower)
          \/ In(KW.summa, query_lower)
          \/ In(KW.summu, query_lower)
          \/ In(KW.skolko, query_lower)
  ELSE IF k = 3
  THEN /\ In(KW.kreator, query_lower)
       /\ In(KW.raznyh, query_lower)
       /\ In(KW.prosmotr, query_lower)
  ELSE re_search(creator_id_pattern, query_lower).ok

\* the outcomes that belong to each rule matcher
RuleFamily(k) ==
  IF k = 1 THEN {"negative_delta"}
  ELSE IF k = 2 THEN {"month_year_sum", "month_year_count"}
  ELSE IF k = 3 THEN {"distinct_creators"}
  ELSE {"creator_calendar_days", "creator_time_window", "creator_date_range",
        "creator_threshold", "creator_count"}

\* the rule matchers whose guard holds on the text of the request
HeldGuards == {k \in 1..4 : GuardHolds(k, lower(user_query))}

\* C13: the first satisfied rule wins.  For a text without exact-lookup hit
\* on which the guards of several rule matchers hold, generate_sql_query
\* returns the SQL of the earliest of them in the order negative delta,
\* month/year, distinct creators, creator scoped, and calls no LLM.
C13_FirstSatisfiedRuleWins ==
  (Generated /\ KnownIn(lower(user_query)) = {} /\ Cardinality(HeldGuards) >= 2)
    => /\ gen.kind = "sql"
       /\ gen.rule \in RuleFamily(MinOf(HeldGuards))
       /\ gen.stages = <<"EXACT_LOOKUP", "RULES">>
       /\ llm = NoCall

\* the order of the rule matchers alone: the earliest rule whose guard
\* holds decides the request, by its SQL or by its exception
EarliestRuleDecides ==
  (Generated /\ KnownIn(lower(user_query)) = {} /\ HeldGuards # {})
    => /\ gen.kind \in {"sql", "raise"}
       /\ gen.rule \in RuleFamily(MinOf(HeldGuards))
       /\ gen.stages = <<"EXACT_LOOKUP", "RULES">>
       /\ llm = NoCall

\* the word and year of the calendar-days rule, and its month number (0:
\* the word is none the rule knows)
CalendarMonth(query_lower) ==
  LET m == re_search(month_year_pattern_any, query_lower)
  IN IF m.ok THEN get(month_map_any, m.group[1], 0) ELSE 0

\* the creator sub-rule that answers a lower-case text with a creator id:
\* the first, in the order calendar days, time window, date range,
\* threshold, whose guard holds and whose parse succeeds; else the plain
\* count
CreatorSubRule(query_lower) ==
  IF /\ In(KW.kalendar, query_lower)
     /\ In(KW.dnya, query_lower) \/ In(KW.dney, query_lower) \/ In(KW.dnyah, query_lower)
     /\ CalendarMonth(query_lower) # 0
  THEN "creator_calendar_days"
  ELSE IF /\ _parse_single_date(query_lower).ok
          /\ _parse_time_range(query_lower).ok
          /\ \/ In(KW.prosmotr, query_lower)
             \/ In(KW.delta, query_lower)
             \/ In(KW.prirost, query_lower)
  THEN "creator_time_window"
  ELSE IF re_search(date_range_pattern, query_lower).ok THEN "creator_date_range"
  ELSE IF re_search(threshold_pattern, query_lower).ok THEN "creator_threshold"
  ELSE "creator_count"

\* the request is one that reaches the creator branch: no exact-lookup
\* hit, no earlier rule fired, a creator id in the text
InCreatorBranch ==
  /\ Generated
  /\ KnownIn(lower(user_query)) = {}
  /\ HeldGuards = {4}

\* C14: with a creator id matched and no earlier rule fired, the creator
\* sub-rules are tried in the order calendar days, time window, date range,
\* threshold, each falling through when its guard or parse fails, and the
\* branch always returns SQL, at least the plain count of the creator's
\* videos: the LLM and RULE_FALLBACK are never reached.
C14_CreatorBranchIsTerminal ==
  InCreatorBranch
    => /\ gen.kind = "sql"
       /\ gen.rule = CreatorSubRule(lower(user_query))
       /\ gen.stages = <<"EXACT_LOOKUP", "RULES">>
       /\ llm = NoCall

\* the order of the creator sub-rules alone: the first sub-rule that
\* applies ends the request, by its SQL or by its exception
CreatorSubRuleDecides ==
  InCreatorBranch
    => /\ gen.kind \in {"sql", "raise"}
       /\ gen.rule = CreatorSubRule(lower(user_query))
       /\ gen.stages = <<"EXACT_LOOKUP", "RULES">>
       /\ llm = NoCall

\* generate_sql_query has just returned or raised: nothing was executed yet
JustGenerated == Generated /\ pc \in {"execute", "reply"} /\ db = NoDB

\* the primary rule matchers answered the request with SQL
RulesGaveSql == gen.kind = "sql" /\ gen.stages = <<"EXACT_LOOKUP", "RULES">>

\* the rules RULE_FALLBACK has in common with the primary rule matchers
SharedRules ==
  {"creator_date_range", "creator_threshold", "creator_count",
   "month_year_sum", "month_year_count", "negative_delta", "distinct_creators"}

CreatorRules == {"creator_date_range", "creator_threshold", "creator_count"}

\* f is SQL of _get_fallback_sql made by one of the shared rules
SharedFallbackSql(f) == f.kind = "sql" /\ f.rule \in SharedRules

AgreeUpToOrder(p, f) ==
  /\ p.rule = f.rule => p.sql = f.sql
  /\ p.rule # f.rule
       => \/ /\ f.rule \in CreatorRules
             /\ p.rule \in {"negative_delta", "month_year_sum", "month_year_count",
                             "distinct_creators", "creator_calendar_days",
                             "creator_time_window"}
          \/ /\ f.rule \in {"month_year_sum", "month_year_count"}
             /\ p.rule = "negative_delta"

RunStarts(s, set) ==
  {i \in 1..Len(s) : s[i] \in set /\ (i = 1 \/ s[i - 1] \notin set)}

\* the last index of the run of characters of set that begins at index i
\* of s (i - 1: no run)
RECURSIVE RunEnd(_, _, _)
RunEnd(s, i, set) ==
  IF i > Len(s) \/ s[i] \notin set THEN i - 1 ELSE RunEnd(s, i + 1, set)

\* the maximal run of characters of set that begins at index i of s
RunAt(s, i, set) == SubSeq(s, i, RunEnd(s, i, set))

\* the digits of s
DigitsOnly(s) == SelectSeq(s, LAMBDA c : c \in Digit)

\* the numbers written in s: its maximal runs of digits
NumbersIn(s) == {DigitsValue(RunAt(s, i, Digit)) : i \in RunStarts(s, Digit)}

\* the numbers a text states: its runs of digits, and its groups of digits
\* separated by white space read as one number ("100 000")
StatedNumbers(text) ==
  NumbersIn(text)
  \cup {DigitsValue(DigitsOnly(RunAt(text, i, Digit \cup WS))) :
          i \in RunStarts(text, Digit \cup WS)}

\* the numbers of the months a text names, in either case
StatedMonths(text) ==
  {month_map_any[k].num : k \in {j \in 1..Len(month_map_any) : In(month_map_any[j].name, text)}}

\* the numbers every statement of a kind carries: 0 of "< 0", "> 0" and
\* COALESCE(.., 0), 23:59:59 of the end of a day, :00+00:00 of a timestamp
FixedNumbers == {0, 23, 59}

\* the number v in the SQL of the request is one the text states, or one
\* of the two defaults, or the day after a stated date in a time window
\* that ends after midnight
ComesFromText(v) ==
  \/ v \in StatedNumbers(lower(user_query))
  \/ v \in StatedMonths(lower(user_query))
  \/ v \in FixedNumbers
  \/ /\ gen.rule = "distinct_creators"
     /\ v = DefaultThreshold
     /\ ~re_search(threshold_pattern, lower(user_query)).ok
  \/ /\ gen.rule = "creator_time_window"
     /\ v = 1 \/ v - 1 \in StatedNumbers(lower(user_query))

\* C16: no value is inferred beyond what the text states.  Every date,
\* month, year and threshold literal in SQL of the primary rules or of
\* RULE_FALLBACK is a value of the text; the only defaults are the metric
\* column and the threshold 100000 of the distinct-creators rule.  So
\* "больше 1000 просмотров" gives no filter on 100000, and no rule emits a
\* date the text does not state.
C16_NoInferredValues ==
  (JustGenerated /\ gen.kind = "sql" /\ Last(gen.stages) \in {"RULES", "RULE_FALLBACK"})
    => \A v \in NumbersIn(gen.sql) : ComesFromText(v)

\* the rules of "General patterns for common queries" that carry a number
GeneralRules == {"general_over100k", "general_growth28", "general_new27"}

\* every rule but the general patterns of RULE_FALLBACK takes its numbers
\* from the text
OnlyGeneralRulesInfer ==
  (JustGenerated /\ gen.kind = "sql" /\ Last(gen.stages) \in {"RULES", "RULE_FALLBACK"}
     /\ gen.rule \notin GeneralRules)
    => \A v \in NumbersIn(gen.sql) : ComesFromText(v)

\* "id" and white space stand before index i of text
AfterId(text, i) ==
  \E j \in 3..(i - 1) :
    /\ \A k \in j..(i - 1) : text[k] \in WS
    /\ MatchAt(text, j - 2, KW.id)

\* the creator ids of a lower-case text: its runs of hex characters that
\* are exactly 32 long and follow "id" and white space
CreatorIdTokens(text) ==
  {RunAt(text, i, Hex) :
     i \in {j \in RunStarts(text, Hex) : Len(RunAt(text, j, Hex)) = HexLen /\ AfterId(text, j)}}

AllCreatorRules == CreatorRules \cup {"creator_calendar_days", "creator_time_window"}

\* the outcome r of a creator rule is about a creator id of the text
AboutCreatorOf(r, text) ==
  r.rule \in AllCreatorRules
    => /\ CreatorIdTokens(text) # {}
       /\ r.kind = "sql"
            => \E id \in CreatorIdTokens(text) : In(<<39>> \o id \o <<39>>, r.sql)

\* C17: a creator id is taken only from "id", white space and a token of
\* exactly 32 hex characters.  A run of hex characters that is shorter or
\* longer yields no creator id, no part of it is taken, in
\* generate_sql_query and in _get_fallback_sql alike.
C17_OnlyExact32HexTokens ==
  JustGenerated
    => /\ AboutCreatorOf(gen, lower(user_query))
       /\ AboutCreatorOf(_get_fallback_sql(user_query), lower(user_query))

\* a before b in the order of strings
LexLess(a, b) ==
  \/ \E i \in 1..MinOf({Len(a), Len(b)}) :
       a[i] < b[i] /\ \A j \in 1..(i - 1) : a[j] = b[j]
  \/ Len(a) < Len(b) /\ a = SubSeq(b, 1, Len(a))

\* the comparisons of a column in a statement: the operator behind each
\* occurrence of the column and the quoted literal behind the operator
ComparisonsOf(sql, column) ==
  {[op |-> RunAt(sql, i + Len(column) + 1, {60, 61, 62}),
    lit |-> RunAt(sql, i + Len(column) + Len(RunAt(sql, i + Len(column) + 1, {60, 61, 62})) + 3,
                  (32..126) \ {39})] :
     i \in {j \in 1..Len(sql) : MatchAt(sql, j, column \o <<32>>)
                                   /\ sql[j + Len(column) + 1] \in {60, 61, 62}}}

\* the value ts satisfies the comparison c
Satisfies(ts, c) ==
  IF c.op = <<62, 61>> THEN ~LexLess(ts, c.lit)
  ELSE IF c.op = <<60>> THEN LexLess(ts, c.lit)
  ELSE IF c.op = <<60, 61>> THEN ~LexLess(c.lit, ts)
  ELSE IF c.op = <<62>> THEN LexLess(c.lit, ts)
  ELSE ts = c.lit

\* a row whose column holds ts passes every comparison of the column
Selects(sql, column, ts) == \A c \in ComparisonsOf(sql, column) : Satisfies(ts, c)

\* the delta columns of video_snapshots
DeltaColumns ==
  {<<100, 101, 108, 116, 97, 95, 118, 105, 101, 119, 115, 95, 99, 111, 117, 110, 116>>,
   <<100, 101, 108, 116, 97, 95, 108, 105, 107, 101, 115, 95, 99, 111, 117, 110, 116>>,
   <<100, 101, 108, 116, 97, 95, 99, 111, 109, 109, 101, 110, 116, 115, 95, 99, 111, 117, 110, 116>>,
   <<100, 101, 108, 116, 97, 95, 114, 101, 112, 111, 114, 116, 115, 95, 99, 111, 117, 110, 116>>}

\* the time-window statement of a creator, a metric and a range
TimeWindowStatement(creator_id, metric, range) ==
  <<83, 69, 76, 69, 67, 84, 32, 67, 79, 65, 76, 69, 83, 67, 69, 40, 83, 85, 77, 40, 118,
    115, 46>>
  \o metric \o
  <<41, 44, 32, 48, 41, 32, 70, 82, 79, 77, 32, 118, 105, 100, 101, 111, 95, 115, 110, 97,
    112, 115, 104, 111, 116, 115, 32, 118, 115, 32, 74, 79, 73, 78, 32, 118, 105, 100, 101,
    111, 115, 32, 118, 32, 79, 78, 32, 118, 46, 105, 100, 32, 61, 32, 118, 115, 46, 118,
    105, 100, 101, 111, 95, 105, 100, 32, 87, 72, 69, 82, 69, 32, 118, 46, 99, 114, 101, 97,
    116, 111, 114, 95, 105, 100, 32, 61, 32, 39>>
  \o creator_id \o
  <<39, 32, 65, 78, 68, 32, 118, 115, 46, 99, 114, 101, 97, 116, 101, 100, 95, 97, 116, 32, 62, 61, 32, 39>>
  \o range.start \o
  <<39, 32, 65, 78, 68, 32, 118, 115, 46, 99, 114, 101, 97, 116, 101, 100, 95, 97, 116, 32, 60, 32, 39>>
  \o range.end \o <<39>>

\* the creator id the pattern of line 230 takes from a lower-case text
MatchedCreatorId(query_lower) == re_search(creator_id_pattern, query_lower).group[1]

\* the SQL of the time-window rule for the range of the text: the sum of a
\* delta column over the half-open window from start to end
TimeWindowAnswer(sql, metric, range) ==
  /\ metric \in DeltaColumns
  /\ sql = TimeWindowStatement(MatchedCreatorId(lower(user_query)), metric, range)
  /\ Cardinality(ComparisonsOf(sql, <<118, 115, 46, 99, 114, 101, 97, 116, 101, 100, 95, 97, 116>>)) = 2
  /\ Selects(sql, <<118, 115, 46, 99, 114, 101, 97, 116, 101, 100, 95, 97, 116>>, range.start)
  /\ ~Selects(sql, <<118, 115, 46, 99, 114, 101, 97, 116, 101, 100, 95, 97, 116>>, range.end)

\* the range _build_datetime_range gives for the date and the time range
\* of a lower-case text
RangeOfText(query_lower) ==
  _build_datetime_range(_parse_single_date(query_lower).date, _parse_time_range(query_lower))

\* C18: the time-window rule.  For a text with a creator id, a single date
\* and a time range that speaks of views, delta or growth, the emitted SQL
\* is COALESCE(SUM(vs.<metric>), 0) over video_snapshots joined to the
\* creator's videos with vs.created_at >= start AND vs.created_at < end,
\* (start, end) being what _build_datetime_range gives: a snapshot at start
\* is included, one at end is excluded.
C18_TimeWindowIsHalfOpen ==
  /\ (JustGenerated /\ gen.kind = "sql" /\ gen.rule = "creator_time_window")
       => /\ CreatorSubRule(lower(user_query)) = "creator_time_window"
          /\ ~RangeOfText(lower(user_query)).raises
          /\ TimeWindowAnswer(gen.sql,
                              _detect_metric_column(lower(user_query), METRIC_KEYWORDS[1].column),
                              RangeOfText(lower(user_query)))
  /\ (JustGenerated /\ gen.rule # "creator_time_window" /\ InCreatorBranch)
       => \/ CreatorSubRule(lower(user_query)) # "creator_time_window"
          \/ RangeOfText(lower(user_query)).raises

\* C18's case: a window from 22:00 to 02:00 on 28 November 2025, over likes,
\* ends on the 29th
C18_Witness ==
  /\ JustGenerated
  /\ gen.kind = "sql"
  /\ gen.rule = "creator_time_window"
  /\ In(<<83, 85, 77, 40, 118, 115, 46, 100, 101, 108, 116, 97, 95, 108, 105, 107, 101, 115, 95, 99, 111, 117, 110, 116, 41>>, gen.sql)
  /\ In(<<118, 115, 46, 99, 114, 101, 97, 116, 101, 100, 95, 97, 116, 32, 62, 61, 32, 39, 50, 48, 50, 53, 45, 49, 49, 45, 50, 56, 32, 50, 50, 58, 48, 48, 58, 48, 48, 43, 48, 48, 58, 48, 48, 39>>, gen.sql)
  /\ In(<<118, 115, 46, 99, 114, 101, 97, 116, 101, 100, 95, 97, 116, 32, 60, 32, 39, 50, 48, 50, 53, 45, 49, 49, 45, 50, 57, 32, 48, 50, 58, 48, 48, 58, 48, 48, 43, 48, 48, 58, 48, 48, 39>>, gen.sql)

\* the two-digit number of a month named in the genitive
TwoDigitMonth(month_name) == zfill(str(get(month_map_any, month_name, 0)), 2)

\* YYYY-MM-DD for a year, a month name and a day as written in a text
IsoDate(year, month_name, day) ==
  year \o <<45>> \o TwoDigitMonth(month_name) \o <<45>>
  \o (IF Len(day) = 1 THEN <<48>> \o day ELSE day)

\* midnight after the day of an ISO date of the calendar
NextMidnight(date) ==
  SubSeq(strftime(replace(plus_one_day(strptime(date)), 0, 0)), 1, 19)

\* the date-range statement of a creator and two ISO dates
DateRangeStatement(creator_id, from, to) ==
  <<83, 69, 76, 69, 67, 84, 32, 67, 79, 85, 78, 84, 40, 42, 41, 32, 70, 82, 79, 77, 32, 118, 105, 100, 101, 111, 115, 32, 87, 72, 69, 82, 69, 32, 99, 114, 101, 97, 116, 111, 114, 95, 105, 100, 32, 61, 32, 39>>
  \o creator_id \o
  <<39, 32, 65, 78, 68, 32, 118, 105, 100, 101, 111, 95, 99, 114, 101, 97, 116, 101, 100, 95, 97, 116, 32, 62, 61, 32, 39>>
  \o from \o
  <<39, 32, 65, 78, 68, 32, 118, 105, 100, 101, 111, 95, 99, 114, 101, 97, 116, 101, 100, 95, 97, 116, 32, 60, 61, 32, 39>>
  \o to \o <<32, 50, 51, 58, 53, 57, 58, 53, 57, 39>>

\* sql is the date-range statement for the dates from and to, and it
\* takes the videos from the first moment of from to 23:59:59 of to: not one
\* of the next day
DateRangeAnswer(sql, creator_id, from, to) ==
  /\ sql = DateRangeStatement(creator_id, from, to)
  /\ Cardinality(ComparisonsOf(sql, <<118, 105, 100, 101, 111, 95, 99, 114, 101, 97, 116, 101, 100, 95, 97, 116>>)) = 2
  /\ Selects(sql, <<118, 105, 100, 101, 111, 95, 99, 114, 101, 97, 116, 101, 100, 95, 97, 116>>, from \o <<32, 48, 48, 58, 48, 48, 58, 48, 48>>)
  /\ Selects(sql, <<118, 105, 100, 101, 111, 95, 99, 114, 101, 97, 116, 101, 100, 95, 97, 116>>, to \o <<32, 50, 51, 58, 53, 57, 58, 53, 57>>)
  /\ strptime(to).ok /\ ~LexLess(to, from)
       => /\ Selects(sql, <<118, 105, 100, 101, 111, 95, 99, 114, 101, 97, 116, 101, 100, 95, 97, 116>>, to \o <<32, 48, 48, 58, 48, 48, 58, 48, 48>>)
          /\ ~Selects(sql, <<118, 105, 100, 101, 111, 95, 99, 114, 101, 97, 116, 101, 100, 95, 97, 116>>, NextMidnight(to))
          /\ ~Selects(sql, <<118, 105, 100, 101, 111, 95, 99, 114, 101, 97, 116, 101, 100, 95, 97, 116>>,
                      SubSeq(NextMidnight(to), 1, 18) \o <<49>>)

\* the date-range statement for the range m found in a text
DateRangeOf(sql, creator_id, m) ==
  DateRangeAnswer(sql, creator_id,
                  IsoDate(m.group[3], m.group[2], m.group[1]),
                  IsoDate(m.group[6], m.group[5], m.group[4]))

\* the answer r of _get_fallback_sql to a lower-case text with a creator
\* id and a date range is the date-range statement
FallbackDateRange(r, query_lower) ==
  \A m \in {re_search(date_range_pattern, query_lower)} :
    (re_search(creator_id_pattern, query_lower).ok /\ m.ok)
      => /\ r.kind = "sql"
         /\ \A id \in {MatchedCreatorId(query_lower)} : DateRangeOf(r.sql, id, m)

\* C19: the date-range rule.  For a text with a creator id and
\* "с <d1> <month1> <y1> по <d2> <month2> <y2>" the emitted SQL counts the
\* creator's videos with video_created_at >= '<y1>-<mm1>-<dd1>' AND
\* video_created_at <= '<y2>-<mm2>-<dd2> 23:59:59', the months as two-digit
\* numbers and the days zero-padded: the end day is included up to
\* 23:59:59, the next day is excluded.  In generate_sql_query the rule
\* answers when no earlier rule and no earlier creator sub-rule does; in
\* _get_fallback_sql it is the first rule of the creator branch.
C19_DateRangeIncludesEndDay ==
  JustGenerated
    => /\ (gen.kind = "sql" /\ gen.rule = "creator_date_range")
            => \A m \in {re_search(date_range_pattern, lower(user_query))} :
                 \A id \in {MatchedCreatorId(lower(user_query))} :
                   DateRangeOf(gen.sql, id, m)
       /\ (InCreatorBranch /\ re_search(date_range_pattern, lower(user_query)).ok
              /\ CreatorSubRule(lower(user_query)) \notin {"creator_calendar_days",
                                                           "creator_time_window"})
            => (gen.kind = "sql" /\ gen.rule = "creator_date_range")
       /\ \A f \in {_get_fallback_sql(user_query)} : FallbackDateRange(f, lower(user_query))

\* C19's case: from 28 February to 3 March 2025, the day 3 padded to 03
C19_Witness ==
  /\ JustGenerated
  /\ gen.kind = "sql"
  /\ gen.rule = "creator_date_range"
  /\ In(<<118, 105, 100, 101, 111, 95, 99, 114, 101, 97, 116, 101, 100, 95, 97, 116, 32, 62, 61, 32, 39, 50, 48, 50, 53, 45, 48, 50, 45, 50, 56, 39, 32, 65, 78, 68, 32, 118, 105, 100, 101, 111, 95, 99, 114, 101, 97, 116, 101, 100, 95, 97, 116, 32, 60, 61, 32, 39, 50, 48, 50, 53, 45, 48, 51, 45, 48, 51, 32, 50, 51, 58, 53, 57, 58, 53, 57, 39>>,
        gen.sql)

\* the month/year statement of an aggregate, a year as written and a month
\* number as written
MonthYearStatement(aggregate, year, month) ==
  <<83, 69, 76, 69, 67, 84, 32>> \o aggregate
  \o <<32, 70, 82, 79, 77, 32, 118, 105, 100, 101, 111, 115, 32, 87, 72, 69, 82, 69, 32, 69, 88, 84, 82, 65, 67, 84, 40, 89, 69, 65, 82, 32, 70, 82, 79, 77, 32, 118, 105, 100, 101, 111, 95, 99, 114, 101, 97, 116, 101, 100, 95, 97, 116, 41, 32, 61, 32>>
  \o year \o <<32, 65, 78, 68, 32, 69, 88, 84, 82, 65, 67, 84, 40, 77, 79, 78, 84, 72, 32, 70, 82, 79, 77, 32, 118, 105, 100, 101, 111, 95, 99, 114, 101, 97, 116, 101, 100, 95, 97, 116, 41, 32, 61, 32>>
  \o month

\* the number 1..12 of a month named in the prepositional case (0: none)
NamedMonth(month_name) == get(month_map_any, month_name, 0)

\* a word that asks for a sum is in the text
AsksForSum(query_lower) ==
  \/ In(<<1089, 1091, 1084, 1084, 1072, 1088, 1085, 1086, 1077>>, query_lower)
  \/ In(<<1089, 1091, 1084, 1084, 1072>>, query_lower)
  \/ In(<<1089, 1091, 1084, 1084, 1091>>, query_lower)

\* a word that asks for a count is in the text
AsksForCount(query_lower) == In(<<1089, 1082, 1086, 1083, 1100, 1082, 1086>>, query_lower)

\* what the claim says of the month/year rule: r is the rule's outcome on a
\* text in which match found "в <month> <year> года"
MonthYearAnswer(r, match, query_lower) ==
  IF AsksForSum(query_lower)
  THEN /\ r.kind = "sql"
       /\ NamedMonth(match.group[1]) \in 1..12
       /\ r.sql = MonthYearStatement(<<83, 85, 77, 40, 118, 105, 101, 119, 115, 95, 99, 111, 117, 110, 116, 41>>, match.group[2],
                                     str(NamedMonth(match.group[1])))
  ELSE IF AsksForCount(query_lower)
  THEN /\ r.kind = "sql"
       /\ NamedMonth(match.group[1]) \in 1..12
       /\ r.sql = MonthYearStatement(<<67, 79, 85, 78, 84, 40, 42, 41>>, match.group[2],
                                     str(NamedMonth(match.group[1])))
  ELSE r.kind = "fallthrough"

\* the request's outcome where the month/year rule is the first rule whose
\* guard can hold: its SQL when it emits one, and an outcome of a later
\* rule or of the LLM stage when it emits nothing
MonthYearDecides(match, query_lower) ==
  IF AsksForSum(query_lower) \/ AsksForCount(query_lower)
  THEN /\ gen.rule \in RuleFamily(2)
       /\ MonthYearAnswer(gen, match, query_lower)
       /\ llm = NoCall
  ELSE gen.rule \notin RuleFamily(2)

\* C20: the month/year aggregate rule.  On a text that matches
\* "в <month> <year> года" the rule of generate_sql_query and the rule of
\* _get_fallback_sql emit SUM(views_count) when a sum-word is in the text,
\* else COUNT(*) when "сколько" is, filtered by the year as written and the
\* number 1..12 of the month named, and emit nothing when neither word is
\* there; a request that reaches the rule is answered with that SQL, or by
\* a later rule when the rule emits nothing.
C20_MonthYearAggregate ==
  JustGenerated
    => \A q \in {lower(user_query)} :
         \A m \in {re_search(month_year_pattern, q)} :
           m.ok
             => /\ MonthYearAnswer(month_year_rule(q), m, q)
                /\ \A f \in {re_search(month_year_pattern_fallback, q)} :
                     f.ok /\ MonthYearAnswer(fallback_month_year_rule(q), f, q)
                /\ (KnownIn(q) = {} /\ ~GuardHolds(1, q)) => MonthYearDecides(m, q)

\* a request with "сколько", "сумму" and "в декабре 2024 года" is answered
\* with the sum of the views of December 2024
C20_Witness ==
  /\ JustGenerated
  /\ AsksForSum(lower(user_query))
  /\ AsksForCount(lower(user_query))
  /\ gen.kind = "sql"
  /\ gen.rule = "month_year_sum"
  /\ gen.sql = MonthYearStatement(<<83, 85, 77, 40, 118, 105, 101, 119, 115, 95, 99, 111, 117, 110, 116, 41>>, <<50, 48, 50, 52>>, <<49, 50>>)

\* the stems in their order of priority, each with its column
StemColumns ==
  << \* "просмотр", "delta_views_count"
     [stem |-> <<1087, 1088, 1086, 1089, 1084, 1086, 1090, 1088>>,
      column |-> <<100, 101, 108, 116, 97, 95, 118, 105, 101, 119, 115, 95, 99, 111, 117, 110, 116>>],
     \* "лайк", "delta_likes_count"
     [stem |-> <<1083, 1072, 1081, 1082>>,
      column |-> <<100, 101, 108, 116, 97, 95, 108, 105, 107, 101, 115, 95, 99, 111, 117, 110, 116>>],
     \* "комментар", "delta_comments_count"
     [stem |-> <<1082, 1086, 1084, 1084, 1077, 1085, 1090, 1072, 1088>>,
      column |-> <<100, 101, 108, 116, 97, 95, 99, 111, 109, 109, 101, 110, 116, 115, 95, 99, 111, 117, 110, 116>>],
     \* "жалоб", "delta_reports_count"
     [stem |-> <<1078, 1072, 1083, 1086, 1073>>,
      column |-> <<100, 101, 108, 116, 97, 95, 114, 101, 112, 111, 114, 116, 115, 95, 99, 111, 117, 110, 116>>],
     \* "репорт", "delta_reports_count"
     [stem |-> <<1088, 1077, 1087, 1086, 1088, 1090>>,
      column |-> <<100, 101, 108, 116, 97, 95, 114, 101, 112, 111, 114, 116, 115, 95, 99, 111, 117, 110, 116>>] >>

\* the stems of StemColumns that occur in a text, by their place in the order
StemsIn(text) == {k \in 1..Len(StemColumns) : In(StemColumns[k].stem, text)}

\* C21: _detect_metric_column returns the column of the first stem, in the
\* order просмотр, лайк, комментар, жалоб, репорт, that occurs in the text,
\* wherever in the text the stems stand, and the given default when no stem
\* occurs.
C21_FirstStemDecides ==
  metric_call.pc = "returned"
    => metric_call.column =
         IF StemsIn(metric_call.text) = {}
         THEN metric_call.default
         ELSE StemColumns[MinOf(StemsIn(metric_call.text))].column

\* "сколько лайков получили" gave delta_likes_count, whatever the default
C21_Witness ==
  /\ metric_call.pc = "returned"
  /\ metric_call.text = <<1089, 1082, 1086, 1083, 1100, 1082, 1086, 32, 1083, 1072, 1081, 1082, 1086, 1074, 32, 1087, 1086, 1083, 1091, 1095, 1080, 1083, 1080>>
  /\ metric_call.default = <<118, 105, 101, 119, 115, 95, 99, 111, 117, 110, 116>>
  /\ metric_call.column = <<100, 101, 108, 116, 97, 95, 108, 105, 107, 101, 115, 95, 99, 111, 117, 110, 116>>

\* the rules that read a view threshold from the text
ThresholdRules == {"creator_threshold", "distinct_creators"}

\* s ends with suffix
EndsWith(s, suffix) ==
  /\ Len(suffix) <= Len(s)
  /\ SubSeq(s, Len(s) - Len(suffix) + 1, Len(s)) = suffix

\* the number written by the digits of a captured run, its separators left
\* out
ThresholdWritten(threshold_str) == DigitsValue(DigitsOnly(threshold_str))

\* C22: view-threshold extraction.  Where "больше <digits with embedded
\* white space> просмотров" is found by a rule that reads the threshold,
\* the conversion succeeds and the SQL compares views_count with the
\* integer the digits of the run write.
C22_ThresholdIsTheWrittenNumber ==
  JustGenerated
    => \A m \in {re_search(threshold_pattern, lower(user_query))} :
         (m.ok /\ gen.rule \in ThresholdRules)
           => /\ gen.kind = "sql"
              /\ EndsWith(gen.sql,
                          <<118, 105, 101, 119, 115, 95, 99, 111, 117, 110, 116, 32, 62, 32>> \o str(ThresholdWritten(m.group[1])))

\* the distinct-creators statement for a threshold
DistinctCreatorsStatement(threshold) ==
  <<83, 69, 76, 69, 67, 84, 32, 67, 79, 85, 78, 84, 40, 68, 73, 83, 84, 73, 78, 67, 84, 32, 99, 114, 101, 97, 116, 111, 114, 95, 105, 100, 41, 32, 70, 82, 79, 77, 32, 118, 105, 100, 101, 111, 115, 32, 87, 72, 69, 82, 69, 32, 118, 105, 101, 119, 115, 95, 99, 111, 117, 110, 116, 32, 62, 32>>
  \o str(threshold)

\* the text mentions "креатор", "разных" and "просмотр"
MentionsDistinctCreators(query_lower) ==
  /\ In(<<1082, 1088, 1077, 1072, 1090, 1086, 1088>>, query_lower)
  /\ In(<<1088, 1072, 1079, 1085, 1099, 1093>>, query_lower)
  /\ In(<<1087, 1088, 1086, 1089, 1084, 1086, 1090, 1088>>, query_lower)

\* what the claim says of an outcome r of the distinct-creators rule on a
\* text in which match is the search for the threshold: a raised int()
\* (a separator other than the space in the run) emits nothing
DistinctCreatorsAnswer(r, match) ==
  /\ r.rule = "distinct_creators"
  /\ r.kind \in {"sql", "raise"}
  /\ r.kind = "raise" => (match.ok /\ \E k \in 1..Len(match.group[1]) : match.group[1][k] \in WS \ {32})
  /\ r.kind = "sql"
       => r.sql = DistinctCreatorsStatement(IF match.ok
                                            THEN ThresholdWritten(match.group[1])
                                            ELSE 100000)

\* C23: the distinct-creators rule.  When the text mentions "креатор",
\* "разных" and "просмотр" and no earlier rule fired, the SQL emitted by
\* generate_sql_query, and by _get_fallback_sql where this rule decides, is
\* COUNT(DISTINCT creator_id) over videos with views_count > T, T the
\* threshold written in the text, or 100000 when none is captured.
C23_DistinctCreatorsAboveThreshold ==
  JustGenerated
    => \A q \in {lower(user_query)} :
         \A m \in {re_search(threshold_pattern, q)} :
           /\ (MentionsDistinctCreators(q) /\ KnownIn(q) = {}
                  /\ ~GuardHolds(1, q) /\ ~GuardHolds(2, q))
                => (DistinctCreatorsAnswer(gen, m) /\ llm = NoCall)
           /\ \A f \in {_get_fallback_sql(user_query)} :
                f.rule = "distinct_creators"
                  => (MentionsDistinctCreators(q) /\ DistinctCreatorsAnswer(f, m))

\* "разных креаторов больше 500 просмотров" is answered with the creators
\* of videos with more than 500 views, and a text without a threshold with
\* 100000
C23_Witness ==
  /\ JustGenerated
  /\ gen.kind = "sql"
  /\ gen.rule = "distinct_creators"
  /\ re_search(threshold_pattern, lower(user_query)).ok
  /\ gen.sql = DistinctCreatorsStatement(500)

\* the database calls of the request that are one of the given calls
CallsOf(names) == {k \in 1..Len(ops) : ops[k] \in names}

\* C24: one request performs at most one LLM completion call and at most
\* one SQL execution, each a single round trip: no failed completion call
\* and no failed connection attempt is made a second time.
C24_NoRetry ==
  /\ gen.llm_calls <= 1
  /\ Len(executed) <= 1
  /\ Cardinality(CallsOf({"execute"})) <= 1
  /\ Cardinality(CallsOf({"connect", "connect_localhost"})) <= 1

\* generate_sql_query of the request went on to the LLM call or to
\* _get_fallback_sql
PastTheRules ==
  /\ JustGenerated
  /\ \E k \in 1..Len(gen.stages) : gen.stages[k] \in {"LLM_CALL", "RULE_FALLBACK"}

\* the guard of the fallback's negative-delta branch (lines 430-431)
FallbackNegativeGuard(query_lower) ==
  /\ \/ In(<<1086, 1090, 1088, 1080, 1094, 1072, 1090, 1077, 1083, 1100, 1085, 1099, 1084>>, query_lower)
     \/ In(<<1086, 1090, 1088, 1080, 1094, 1072, 1090, 1077, 1083, 1100, 1085, 1086, 1077>>, query_lower)
  /\ \/ In(<<1079, 1072, 1084, 1077, 1088>>, query_lower)
     \/ In(<<1089, 1085, 1072, 1087, 1096, 1086, 1090>>, query_lower)
     \/ In(<<1089, 1090, 1072, 1090, 1080, 1089, 1090, 1080, 1082>>, query_lower)
  /\ In(<<1087, 1088, 1086, 1089, 1084, 1086, 1090, 1088, 1086, 1074>>, query_lower)

\* C25: whenever generate_sql_query reaches the LLM call or
\* _get_fallback_sql, the text has no creator id match and satisfies
\* neither the negative-delta guard, of either function, nor the
\* distinct-creators guard; so the outcome of the request is never one of
\* the creator, negative-delta and distinct-creators branches of the
\* fallback.
C25_FallbackBranchesUnreachable ==
  PastTheRules
    => \A q \in {lower(user_query)} :
         /\ ~re_search(creator_id_pattern, q).ok
         /\ ~GuardHolds(1, q)
         /\ ~FallbackNegativeGuard(q)
         /\ ~GuardHolds(3, q)
         /\ gen.rule \notin RuleFamily(1) \cup RuleFamily(3) \cup RuleFamily(4)

\* the fallback answered a request whose text names negative measurements
\* without the word "просмотров": the rule of generate_sql_query let it
\* pass, and so does the branch of the fallback
C25_Witness ==
  /\ PastTheRules
  /\ gen.stages[Len(gen.stages)] = "RULE_FALLBACK"
  /\ In(<<1086, 1090, 1088, 1080, 1094, 1072, 1090, 1077, 1083, 1100, 1085, 1099, 1084>>, lower(user_query))
  /\ In(<<1079, 1072, 1084, 1077, 1088>>, lower(user_query))

\* how often a call occurs among the calls of a run
CountOf(calls, name) == Cardinality({k \in 1..Len(calls) : calls[k] = name})

\* the run of import_data has ended and it went into its get_db_cursor
\* block
ImportBlockEnded ==
  /\ import_run.pc = "returned"
  /\ import_run.file.kind = "json"
  /\ import_run.file.videos # <<>>

\* the number of executes of the run's body
RECURSIVE SumOf(_)
SumOf(counts) == IF counts = <<>> THEN 0 ELSE Head(counts) + SumOf(Tail(counts))

Executes == Len(import_run.file.videos) + SumOf(import_run.file.videos)

\* a connection was established, at the first or at the second attempt
Established == import_run.db.connect \in {"ok", "retry_ok"}

\* the body of the block raised
BodyRaised == import_run.db.fail_at \in 1..Executes

\* the connection is closed exactly once, after every other call, when one
\* was established, and nothing is closed, committed or rolled back when
\* none was
ClosedOnce ==
  LET calls == import_run.out.ops
  IN IF Established
     THEN CountOf(calls, "close") = 1 /\ calls[Len(calls)] = "close"
     ELSE /\ CountOf(calls, "close") = 0
          /\ CountOf(calls, "commit") = 0
          /\ CountOf(calls, "rollback") = 0
          /\ import_run.out.status = 1

\* C26 as stated: get_db_cursor commits exactly once and never rolls back
\* when the body finishes without an exception; rolls back, never commits
\* and re-raises when the body raises; closes the connection exactly once
\* after that, and closes nothing when no connection was established.
C26_CommitXorRollback ==
  ImportBlockEnded
    => /\ ClosedOnce
       /\ (Established /\ ~BodyRaised)
            => /\ CountOf(import_run.out.ops, "commit") = 1
               /\ CountOf(import_run.out.ops, "rollback") = 0
       /\ (Established /\ BodyRaised)
            => /\ CountOf(import_run.out.ops, "commit") = 0
               /\ CountOf(import_run.out.ops, "rollback") = 1
               /\ import_run.out.status # 0

\* C26, amended: after a body without an exception the commit is called
\* exactly once, and the connection is rolled back exactly when that commit
\* raises, which is re-raised; after a body that raises an Exception the
\* connection is rolled back once, never committed, and the exception is
\* re-raised; an exception that is no Exception (KeyboardInterrupt) leaves
\* the block with neither commit nor rollback; in every case an
\* established connection is closed exactly once, last of all, and nothing
\* is closed when none was established.
C26_CommitOrRollbackOnException ==
  ImportBlockEnded
    => /\ ClosedOnce
       /\ (Established /\ ~BodyRaised)
            => /\ CountOf(import_run.out.ops, "commit") = 1
               /\ CountOf(import_run.out.ops, "rollback")
                    = (IF import_run.db.commit = "raise" THEN 1 ELSE 0)
               /\ import_run.out.status = (IF import_run.db.commit = "raise" THEN 1 ELSE 0)
       /\ (Established /\ BodyRaised /\ import_run.db.fail_kind = "exception")
            => /\ CountOf(import_run.out.ops, "commit") = 0
               /\ CountOf(import_run.out.ops, "rollback") = 1
               /\ import_run.out.status = 1
       /\ (Established /\ BodyRaised /\ import_run.db.fail_kind = "interrupt")
            => /\ CountOf(import_run.out.ops, "commit") = 0
               /\ CountOf(import_run.out.ops, "rollback") = 0
               /\ import_run.out.status = 130

\* a body of three executes ended without an exception, the commit raised:
\* the connection was rolled back and closed
C26_Witness ==
  /\ ImportBlockEnded
  /\ ~BodyRaised
  /\ import_run.out.ops
       = <<"connect", "cursor", "videos", "video_snapshots", "video_snapshots",
           "commit", "rollback", "close">>
  /\ import_run.out.status = 1

\* C27: process_query touches the database only after generate_sql_query
\* returned a non-empty SQL string: without one no connection is opened,
\* nothing is executed, and the result is None when generate_sql_query
\* returned None; the SQL that is executed is exactly the string
\* generate_sql_query returned.
C27_DatabaseOnlyAfterSql ==
  /\ (ops # <<>> \/ executed # <<>> \/ db # NoDB)
       => (Generated /\ gen.kind = "sql" /\ gen.sql # <<>>)
  /\ (Generated /\ gen.kind = "none")
       => (ops = <<>> /\ result = NoneResult)
  /\ \A k \in 1..Len(executed) : executed[k] = gen.sql
  /\ (Generated /\ gen.kind = "sql" /\ pc \in {"reply", "done"})
       => (ops # <<>> /\ ops[1] = "connect")

\* a request whose generate_sql_query returned None was answered without
\* a database call
C27_Witness ==
  /\ pc = "done"
  /\ gen.kind = "none"
  /\ ops = <<>>
  /\ executed = <<>>
  /\ result = NoneResult
  /\ replies # <<>>

\* every row of the file of the run: its videos and the snapshots of each
RowsOfFile ==
  {Row("videos", v, 0) : v \in 1..Len(import_run.file.videos)}
  \cup UNION {{Row("video_snapshots", v, s) : s \in 1..import_run.file.videos[v]} :
                v \in 1..Len(import_run.file.videos)}

\* the rows the run committed
CommittedRows ==
  {import_run.out.committed[k] : k \in 1..Len(import_run.out.committed)}

\* the calls of the run before its commit are the inserts of every video
\* and, after them, of every snapshot
CommitAfterLastSnapshot ==
  LET calls == import_run.out.ops
  IN \A c \in {k \in 1..Len(calls) : calls[k] = "commit"} :
       /\ CountOf(SubSeq(calls, 1, c - 1), "videos") = Len(import_run.file.videos)
       /\ CountOf(SubSeq(calls, 1, c - 1), "video_snapshots")
            = SumOf(import_run.file.videos)
       /\ \A i, j \in 1..Len(calls) :
            (calls[i] = "videos" /\ calls[j] = "video_snapshots") => i < j

\* C28: import_data is all-or-nothing.  The inserts of all videos and then
\* of all snapshots run in one get_db_cursor block; the run commits every
\* row of the file or none; when an insert raises, nothing of the run is
\* committed and the process exits with status 1; the commit comes only
\* after the last snapshot was inserted.
C28_ImportIsAllOrNothing ==
  ImportBlockEnded
    => /\ CountOf(import_run.out.ops, "cursor") <= 1
       /\ CountOf(import_run.out.ops, "commit") <= 1
       /\ CommittedRows \in {{}, RowsOfFile}
       /\ CommittedRows = RowsOfFile
            <=> (import_run.out.status = 0 /\ CountOf(import_run.out.ops, "commit") = 1)
       /\ (Established /\ BodyRaised)
            => /\ CommittedRows = {}
               /\ CountOf(import_run.out.ops, "commit") = 0
               /\ import_run.db.fail_kind = "exception" => import_run.out.status = 1
       /\ CommitAfterLastSnapshot

\* the insert of a snapshot raised after the videos had been inserted:
\* the run was rolled back, committed nothing and exited with status 1
C28_Witness ==
  /\ ImportBlockEnded
  /\ CountOf(import_run.out.ops, "videos") = 2
  /\ CountOf(import_run.out.ops, "video_snapshots") = 2
  /\ SumOf(import_run.file.videos) = 3
  /\ CountOf(import_run.out.ops, "rollback") = 1
  /\ import_run.out.committed = <<>>
  /\ import_run.out.status = 1

====
